---- MODULE Spec2Model ----
(***************************************************************************)
(* Document lifecycle of aira: upload, background processing and delete,   *)
(* as implemented by api/server.py, services/document_service.py,          *)
(* services/qdrant_service.py and services/s3_upload.py.                   *)
(*                                                                         *)
(* Every await, executor call and collaborator request of a handler is one *)
(* step, so that requests and background tasks interleave where the        *)
(* asyncio event loop and the thread pool let them interleave.             *)
(***************************************************************************)
EXTENDS Integers, Sequences, FiniteSets, TLC

\* ---------------------------------------------------------------- bounds
MaxOps == 4    \* operations that start: upload requests, process_document
               \* invocations and delete requests

DocIds == 1..MaxOps
DelReqs == 1..MaxOps

\* ------------------------------------------------------- DocumentStatus
UPLOADED == "uploaded"
PROCESSING == "processing"
PROCESSED == "processed"
ERROR == "error"

\* ------------------------------------------------------------ filenames
\* A filename is dir + stem + ext; NoName is the missing / empty filename.
NoName == [dir |-> "", stem |-> "", ext |-> ""]
APdf == [dir |-> "", stem |-> "a", ext |-> ".pdf"]
BPdf == [dir |-> "", stem |-> "b", ext |-> ".PDF"]
CPdf == [dir |-> "", stem |-> "c", ext |-> ".pdf"]
ATxt == [dir |-> "", stem |-> "a", ext |-> ".txt"]

\* str.lower() on the extensions that occur
Lower(s) == IF s = ".PDF" THEN ".pdf" ELSE IF s = ".TXT" THEN ".txt" ELSE s

\* variant: every filename that is not missing is taken for a PDF name
IsPdfName_NonEmpty(f) == f # NoName

\* server.py:160  file.filename and file.filename.lower().endswith(".pdf")
IsPdfName(f) == f # NoName /\ Lower(f.ext) = ".pdf"

\* s3_upload.py:44  os.path.basename(filename)
Basename(f) == [f EXCEPT !.dir = ""]

\* ------------------------------------------------------------- contents
\* An uploaded file: its byte size and the character lengths of the chunks
\* that extraction and splitting produce from it.
NoText == [size |-> 100, chunks |-> << >>]
TwoChunks == [size |-> 200, chunks |-> <<800, 300>>]
LongChunk == [size |-> 300, chunks |-> <<1500>>]

\* the files that are uploaded
Files ==
    { [filename |-> APdf, content |-> TwoChunks],
      [filename |-> BPdf, content |-> LongChunk],
      [filename |-> CPdf, content |-> NoText] }

\* the files of the requests among which some have no filename or a
\* filename that does not end in .pdf
RequestFiles ==
    { [filename |-> APdf, content |-> TwoChunks],
      [filename |-> BPdf, content |-> LongChunk],
      [filename |-> ATxt, content |-> TwoChunks],
      [filename |-> NoName, content |-> TwoChunks] }

\* the text of chunk i of content c: identified by its source, with a length
ChunkText(c, i) == [src |-> <<c.size, i>>, len |-> c.chunks[i]]

\* document_service.py:165-175, 185-210  the chunk texts of a content
SplitChunks(c) == [i \in 1..Len(c.chunks) |-> ChunkText(c, i)]

Min(a, b) == IF a <= b THEN a ELSE b

\* text[:n]
Prefix(t, n) == [t EXCEPT !.len = Min(t.len, n)]

PreviewChars == 1000
MoreMarker == " ... (more content available)"

\* variant: the continuation marker is appended whenever there is a chunk
ContentPreview_AlwaysMore(chunks) ==
    [head |-> Prefix(chunks[1], PreviewChars),
     tail |-> IF Len(chunks) > 0 THEN MoreMarker ELSE ""]

\* document_service.py:308-310  (chunks is non-empty here)
ContentPreview(chunks) ==
    [head |-> Prefix(chunks[1], PreviewChars),
     tail |-> IF Len(chunks) > 1 THEN MoreMarker ELSE ""]

UpsertBatch == 200

\* --------------------------------------------------------------- state
VARIABLES
    docs,        \* documents table: document id -> row
    s3,          \* object store: key -> [document_id, content]
    index,       \* vector index: document id -> number of points tagged with it
    collection,  \* whether the Qdrant collection exists
    nextId,      \* next fresh document id (uuid4)
    up,          \* upload requests, by the document id they would create
    task,        \* process_document invocations, by document id
    nextDel,     \* next delete request
    del,         \* delete requests
    calls,       \* process_document invocations started so far
    tl,          \* one call of ensure_token_limit
    em,          \* one call of embed_chunks inside process_document
    ups,         \* one call of Qdrant.upsert_points
    qa,          \* the question-answering service and its calls in progress
    ls           \* one listing of the qa_history or of the feedback table

\* the state of the document lifecycle, and the state of the calls that are
\* studied on their own
docVars == <<docs, s3, index, collection, nextId, up, task, nextDel, del, calls>>
fnVars == <<tl, em, ups, qa, ls>>
vars == <<docVars, fnVars>>

\* datetime.now(): the instant is named by the event that reads the clock;
\* the code never compares two instants
Now(event, id) == [at |-> event, of |-> id]

\* ---------------------------------------------------- table operations
\* INSERT OR REPLACE INTO documents
SaveRow(table, row) ==
    [i \in DOMAIN table \cup {row.id} |-> IF i = row.id THEN row ELSE table[i]]

\* DELETE FROM documents WHERE id = ?
DeleteRow(table, id) == [i \in DOMAIN table \ {id} |-> table[i]]

\* put / delete of one key of the object store
PutObject(store, key, obj) ==
    [k \in DOMAIN store \cup {key} |-> IF k = key THEN obj ELSE store[k]]

DeleteObject(store, key) == [k \in DOMAIN store \ {key} |-> store[k]]

\* document_service.py:336-339
check_duplicate_filename(f) == \E d \in DOMAIN docs : docs[d].filename = f

\* server.py:205-207  every exception raised inside the handler's try block,
\* HTTPException included, is re-raised as HTTPException(500)
UploadBoundary(code) == 500

\* server.py:430-431
DeleteBoundary(code) == 500

\* ----------------------------------------------------------------- Init
NoFile == [size |-> 0, chunks |-> << >>]

IdleUpload ==
    [pc |-> "new", filename |-> NoName, content |-> NoFile, time |-> Now("", 0),
     dup |-> FALSE, raised |-> 0, resp |-> 0, stored |-> FALSE]

IdleTask ==
    [pc |-> "none", runs |-> 0, doc |-> << >>, from |-> "", content |-> NoFile,
     chunks |-> << >>, embedded |-> 0, upserted |-> 0, failed |-> "",
     stages |-> << >>]

\* no call of ensure_token_limit is under study
IdleTokenLimit ==
    [pc |-> "idle", chunks |-> << >>, max_tokens |-> 0, k |-> 0, start_idx |-> 0,
     end_idx |-> 0, final_chunks |-> << >>]

\* no call of embed_chunks is under study
IdleEmbed ==
    [pc |-> "idle", chunks |-> << >>, i |-> 0, embeddings |-> << >>,
     requests |-> << >>, failed |-> FALSE, returned |-> << >>, upserted |-> 0,
     status |-> ""]

\* no call of upsert_points is under study
IdleUpsert ==
    [pc |-> "idle", document_id |-> 0, document_filename |-> NoName,
     chunks |-> << >>, embeddings |-> << >>, points |-> << >>, calls |-> << >>,
     failed |-> FALSE]

\* the question-answering service is not under study
IdleSearch ==
    [pc |-> "idle", question |-> "", context_length |-> 0, index |-> << >>,
     embed_calls |-> 0, queries |-> 0, hits |-> << >>, result |-> << >>]

\* no call of process_requests is under study
IdleBatch ==
    [pc |-> "idle", requests |-> << >>, max_concurrent |-> 0, sem |-> 0,
     task |-> << >>, results |-> << >>, error |-> ""]

IdleQA ==
    [corpus |-> << >>, ask |-> << >>, history |-> {}, embedding |-> FALSE,
     feedback |-> {}, next_feedback |-> 1, fb |-> << >>,
     search |-> IdleSearch, batch |-> IdleBatch]

\* no listing is under study
IdleListing ==
    [pc |-> "idle", qa_history |-> << >>, feedback |-> << >>, of |-> "",
     limit |-> 0, offset |-> 0, result |-> << >>]

IdleDelete ==
    [pc |-> "new", id |-> 0, key |-> NoName, calls |-> {}, failures |-> {},
     result |-> FALSE, resp |-> 0]

\* no document has been uploaded
NoDocuments ==
    /\ docs = [i \in {} |-> 0]
    /\ s3 = [k \in {} |-> 0]
    /\ index = [i \in DocIds |-> 0]
    /\ collection = FALSE
    /\ nextId = 1
    /\ up = [r \in DocIds |-> IdleUpload]
    /\ task = [i \in DocIds |-> IdleTask]
    /\ nextDel = 1
    /\ del = [k \in DelReqs |-> IdleDelete]
    /\ calls = 0

Init ==
    /\ NoDocuments
    /\ tl = IdleTokenLimit
    /\ em = IdleEmbed
    /\ ups = IdleUpsert
    /\ qa = IdleQA
    /\ ls = IdleListing

\* ----------------------------------------------- POST /documents/upload
\* server.py:159-169  validation and duplicate check of a new request
UploadCheck(file) ==
    /\ (nextId - 1) + calls + (nextDel - 1) < MaxOps
    /\ nextId' = nextId + 1
    /\ LET r == nextId
           f == file.filename
           c == file.content
           raised == IF ~IsPdfName(f) THEN 400
                     ELSE IF check_duplicate_filename(f) THEN 409 ELSE 0
       IN up' = [up EXCEPT ![r] =
                    [@ EXCEPT !.filename = f, !.content = c,
                              !.dup = IsPdfName(f) /\ check_duplicate_filename(f),
                              !.raised = raised,
                              !.resp = IF raised # 0 THEN UploadBoundary(raised) ELSE 0,
                              !.pc = IF raised # 0 THEN "done" ELSE "put"]]
    /\ UNCHANGED <<docs, s3, index, collection, task, nextDel, del, calls>>
    /\ UNCHANGED fnVars

\* variant: the upload goes on when the object store has refused the bytes
UploadPut_IgnoresFailure(r, ok) ==
    /\ up[r].pc = "put"
    /\ IF ok
       THEN /\ s3' = PutObject(s3, Basename(up[r].filename),
                               [document_id |-> r, content |-> up[r].content])
            /\ up' = [up EXCEPT ![r] = [@ EXCEPT !.pc = "save", !.time = Now("upload", r),
                                                 !.stored = TRUE]]
       ELSE /\ up' = [up EXCEPT ![r] = [@ EXCEPT !.pc = "save", !.time = Now("upload", r)]]
            /\ UNCHANGED s3
    /\ UNCHANGED <<docs, index, collection, nextId, task, nextDel, del, calls>>
    /\ UNCHANGED fnVars

\* document_service.py:226-246  S3 upload, then the Document is built
UploadPut(r, ok) ==
    /\ up[r].pc = "put"
    /\ IF ok
       THEN /\ s3' = PutObject(s3, Basename(up[r].filename),
                               [document_id |-> r, content |-> up[r].content])
            /\ up' = [up EXCEPT ![r] = [@ EXCEPT !.pc = "save", !.time = Now("upload", r),
                                                 !.stored = TRUE]]
       ELSE /\ up' = [up EXCEPT ![r] = [@ EXCEPT !.pc = "done", !.raised = 500,
                                                 !.resp = UploadBoundary(500)]]
            /\ UNCHANGED s3
    /\ UNCHANGED <<docs, index, collection, nextId, task, nextDel, del, calls>>
    /\ UNCHANGED fnVars

\* the Document built by document_service.py:239-246
NewDocument(r) ==
    [id |-> r,
     filename |-> up[r].filename,
     file_path |-> Basename(up[r].filename),
     status |-> UPLOADED,
     upload_time |-> up[r].time,
     processed_time |-> << >>,
     file_size |-> up[r].content.size,
     content_preview |-> << >>]

\* document_service.py:248, server.py:193-204  the row is saved, the
\* background task is queued and the request returns
UploadSave(r) ==
    /\ up[r].pc = "save"
    /\ docs' = SaveRow(docs, NewDocument(r))
    /\ task' = [task EXCEPT ![r] = [@ EXCEPT !.pc = "queued"]]
    /\ up' = [up EXCEPT ![r] = [@ EXCEPT !.pc = "done", !.resp = 200]]
    /\ UNCHANGED <<s3, index, collection, nextId, nextDel, del, calls>>
    /\ UNCHANGED fnVars

\* ------------------------------------------------------ process_document
\* the invocation has returned, or has raised to a caller other than the
\* background wrapper of the upload request
Ended(t) == t.pc = "done" \/ (t.pc = "raised" /\ t.runs > 1)

\* variant: a document that is already PROCESSED or ERROR is not processed again
ProcessGet_SkipTerminal(id) ==
    /\ task[id].pc = "queued" \/ Ended(task[id])
    /\ (nextId - 1) + calls + (nextDel - 1) < MaxOps
    /\ calls' = calls + 1
    /\ IF id \in DOMAIN docs
       THEN task' = [task EXCEPT ![id] =
                        [@ EXCEPT !.pc = IF docs[id].status \in {PROCESSED, ERROR}
                                         THEN "done" ELSE "setproc",
                                  !.runs = @ + 1,
                                  !.doc = <<docs[id]>>, !.from = docs[id].status,
                                  !.content = NoFile, !.chunks = << >>,
                                  !.embedded = 0, !.upserted = 0,
                                  !.failed = "", !.stages = << >>]]
       ELSE task' = [task EXCEPT ![id] =
                        [@ EXCEPT !.pc = "done", !.runs = @ + 1,
                                  !.doc = << >>, !.from = "",
                                  !.content = NoFile, !.chunks = << >>,
                                  !.embedded = 0, !.upserted = 0,
                                  !.failed = "notfound", !.stages = << >>]]
    /\ UNCHANGED <<docs, s3, index, collection, nextId, up, nextDel, del>>
    /\ UNCHANGED fnVars

\* document_service.py:253-256  get_document; the first invocation is the
\* background task queued by the upload, a later one is a new process(id)
\* call of a caller that waited for the previous invocation to end
ProcessGet(id) ==
    /\ task[id].pc = "queued" \/ Ended(task[id])
    /\ (nextId - 1) + calls + (nextDel - 1) < MaxOps
    /\ calls' = calls + 1
    /\ IF id \in DOMAIN docs
       THEN task' = [task EXCEPT ![id] =
                        [@ EXCEPT !.pc = "setproc", !.runs = @ + 1,
                                  !.doc = <<docs[id]>>, !.from = docs[id].status,
                                  !.content = NoFile, !.chunks = << >>,
                                  !.embedded = 0, !.upserted = 0,
                                  !.failed = "", !.stages = << >>]]
       ELSE task' = [task EXCEPT ![id] =
                        [@ EXCEPT !.pc = "done", !.runs = @ + 1,
                                  !.doc = << >>, !.from = "",
                                  !.content = NoFile, !.chunks = << >>,
                                  !.embedded = 0, !.upserted = 0,
                                  !.failed = "notfound", !.stages = << >>]]
    /\ UNCHANGED <<docs, s3, index, collection, nextId, up, nextDel, del>>
    /\ UNCHANGED fnVars

\* variant: PROCESSING is set on the document but not saved
ProcessSetProcessing_NoSave(id) ==
    /\ task[id].pc = "setproc"
    /\ LET d == [task[id].doc[1] EXCEPT !.status = PROCESSING]
       IN task' = [task EXCEPT ![id] =
                      [@ EXCEPT !.pc = "fetch", !.doc = <<d>>,
                                !.stages = Append(@, "processing")]]
    /\ UNCHANGED <<docs, s3, index, collection, nextId, up, nextDel, del, calls>>
    /\ UNCHANGED fnVars

\* document_service.py:258-259
ProcessSetProcessing(id) ==
    /\ task[id].pc = "setproc"
    /\ LET d == [task[id].doc[1] EXCEPT !.status = PROCESSING]
       IN /\ docs' = SaveRow(docs, d)
          /\ task' = [task EXCEPT ![id] =
                         [@ EXCEPT !.pc = "fetch", !.doc = <<d>>,
                                   !.stages = Append(@, "processing")]]
    /\ UNCHANGED <<s3, index, collection, nextId, up, nextDel, del, calls>>
    /\ UNCHANGED fnVars

\* document_service.py:264-281, s3_upload.py:71-77  stream_file runs before
\* the try block: its exception leaves process_document. The text is then
\* extracted and chunked inside the try block.
ProcessFetch(id, ok, xok) ==
    /\ task[id].pc = "fetch"
    /\ ok \/ xok
    /\ ok \/ task[id].doc[1].filename \in DOMAIN s3
    /\ LET key == task[id].doc[1].filename
       IN IF ~(ok /\ key \in DOMAIN s3)
          THEN task' = [task EXCEPT ![id] =
                           [@ EXCEPT !.pc = "raised", !.failed = "fetch",
                                     !.doc = << >>]]
          ELSE IF ~xok
          THEN task' = [task EXCEPT ![id] =
                           [@ EXCEPT !.pc = "error", !.failed = "extract",
                                     !.content = s3[key].content,
                                     !.stages = Append(@, "fetch")]]
          ELSE task' = [task EXCEPT ![id] =
                           [@ EXCEPT !.pc = "embed", !.content = s3[key].content,
                                     !.chunks = SplitChunks(s3[key].content),
                                     !.stages = @ \o <<"fetch", "extract", "chunk">>]]
    /\ UNCHANGED <<docs, s3, index, collection, nextId, up, nextDel, del, calls>>
    /\ UNCHANGED fnVars

\* server.py:176-191  the background wrapper catches the exception, reads
\* the document and sets ERROR on the object it has read; that object is
\* never saved, so no store changes
process_document_with_error_handling(id) ==
    /\ task[id].pc = "raised"
    /\ task[id].runs = 1
    /\ task' = [task EXCEPT ![id] = [@ EXCEPT !.pc = "done"]]
    /\ UNCHANGED <<docs, s3, index, collection, nextId, up, nextDel, del, calls>>
    /\ UNCHANGED fnVars

\* variant: the points are upserted without a look at the collection
ProcessEmbed_SkipsCollection(id, ok, cok) ==
    /\ task[id].pc = "embed"
    /\ ok \/ cok
    /\ IF ~ok
       THEN task' = [task EXCEPT ![id] =
                        [@ EXCEPT !.pc = "error", !.failed = "embed"]]
       ELSE task' = [task EXCEPT ![id] =
                        [@ EXCEPT !.pc = "upsert",
                                  !.embedded = Len(task[id].chunks),
                                  !.stages = Append(@, "embed")]]
    /\ UNCHANGED <<docs, s3, index, collection, nextId, up, nextDel, del, calls>>
    /\ UNCHANGED fnVars

\* document_service.py:284-286, 329, qdrant_service.py:48-60  the embedding
\* call returns; the collection list is then read (collection_exists, and
\* again at the head of create_collection)
ProcessEmbed(id, ok, cok) ==
    /\ task[id].pc = "embed"
    /\ ok \/ cok
    /\ IF ~ok
       THEN task' = [task EXCEPT ![id] =
                        [@ EXCEPT !.pc = "error", !.failed = "embed"]]
       ELSE IF ~cok
       THEN task' = [task EXCEPT ![id] =
                        [@ EXCEPT !.pc = "error", !.failed = "collection",
                                  !.embedded = Len(task[id].chunks),
                                  !.stages = Append(@, "embed")]]
       ELSE task' = [task EXCEPT ![id] =
                        [@ EXCEPT !.pc = IF collection THEN "upsert" ELSE "create",
                                  !.embedded = Len(task[id].chunks),
                                  !.stages = Append(@, "embed")]]
    /\ UNCHANGED <<docs, s3, index, collection, nextId, up, nextDel, del, calls>>
    /\ UNCHANGED fnVars

\* qdrant_service.py:61-74  client.create_collection; the index service
\* rejects the creation of a collection that exists, which another task may
\* have created since this one found it missing
ProcessCreateCollection(id, ok) ==
    /\ task[id].pc = "create"
    /\ ok \/ ~collection
    /\ IF ok /\ ~collection
       THEN /\ collection' = TRUE
            /\ task' = [task EXCEPT ![id] =
                           [@ EXCEPT !.pc = "upsert"]]
       ELSE /\ task' = [task EXCEPT ![id] =
                           [@ EXCEPT !.pc = "error",
                                     !.failed = IF collection THEN "exists"
                                                ELSE "collection"]]
            /\ UNCHANGED collection
    /\ UNCHANGED <<docs, s3, index, nextId, up, nextDel, del, calls>>
    /\ UNCHANGED fnVars

\* qdrant_service.py:119-131  the points of the next client.upsert call:
\* slices of 200 when there are at least 200 points, else all of them
NextBatch(n, sent) == IF n >= UpsertBatch THEN Min(UpsertBatch, n - sent) ELSE n

\* qdrant_service.py:113-132  one client.upsert call
ProcessUpsert(id, ok) ==
    /\ task[id].pc = "upsert"
    /\ LET n == task[id].embedded
           b == NextBatch(n, task[id].upserted)
       IN IF ok
          THEN /\ index' = [index EXCEPT ![id] = @ + b]
               /\ task' = [task EXCEPT ![id] =
                              [@ EXCEPT !.upserted = @ + b,
                                        !.pc = IF task[id].upserted + b >= n
                                               THEN "finish" ELSE "upsert",
                                        !.stages = IF task[id].upserted + b >= n
                                                   THEN Append(@, "upsert") ELSE @]]
          ELSE /\ task' = [task EXCEPT ![id] =
                              [@ EXCEPT !.pc = "error", !.failed = "upsert"]]
               /\ UNCHANGED index
    /\ UNCHANGED <<docs, s3, collection, nextId, up, nextDel, del, calls>>
    /\ UNCHANGED fnVars

\* variant: a document without fragments is saved as PROCESSED, without a
\* preview
ProcessFinish_EmptyPreview(id) ==
    /\ task[id].pc = "finish"
    /\ LET d == [task[id].doc[1] EXCEPT !.status = PROCESSED,
                                        !.processed_time = <<Now("processed", id)>>]
           e == IF Len(task[id].chunks) = 0 THEN d
                ELSE [d EXCEPT !.content_preview =
                                  <<ContentPreview(task[id].chunks)>>]
       IN /\ docs' = SaveRow(docs, e)
          /\ task' = [task EXCEPT ![id] =
                         [@ EXCEPT !.pc = "done", !.doc = << >>,
                                   !.stages = Append(@, "processed")]]
    /\ UNCHANGED <<s3, index, collection, nextId, up, nextDel, del, calls>>
    /\ UNCHANGED fnVars

\* document_service.py:305-314  status, processed_time and preview are set
\* on the document in this order; chunks[0] raises on an empty chunk list,
\* after the first two assignments
ProcessFinish(id) ==
    /\ task[id].pc = "finish"
    /\ LET d == [task[id].doc[1] EXCEPT !.status = PROCESSED,
                                        !.processed_time = <<Now("processed", id)>>]
       IN IF Len(task[id].chunks) = 0
          THEN /\ task' = [task EXCEPT ![id] =
                              [@ EXCEPT !.pc = "error", !.failed = "preview",
                                        !.doc = <<d>>]]
               /\ UNCHANGED docs
          ELSE LET e == [d EXCEPT !.content_preview =
                                     <<ContentPreview(task[id].chunks)>>]
               IN /\ docs' = SaveRow(docs, e)
                  /\ task' = [task EXCEPT ![id] =
                                 [@ EXCEPT !.pc = "done", !.doc = << >>,
                                           !.stages = Append(@, "processed")]]
    /\ UNCHANGED <<s3, index, collection, nextId, up, nextDel, del, calls>>
    /\ UNCHANGED fnVars

\* variant: the row is saved with the time of the failure as upload time
ProcessError_Restamps(id) ==
    /\ task[id].pc = "error"
    /\ LET d == [task[id].doc[1] EXCEPT !.status = ERROR,
                                        !.upload_time = Now("processed", id)]
       IN /\ docs' = SaveRow(docs, d)
          /\ task' = [task EXCEPT ![id] =
                         [@ EXCEPT !.pc = "done", !.doc = << >>,
                                   !.stages = Append(@, "error")]]
    /\ UNCHANGED <<s3, index, collection, nextId, up, nextDel, del, calls>>
    /\ UNCHANGED fnVars

\* document_service.py:316-319
ProcessError(id) ==
    /\ task[id].pc = "error"
    /\ LET d == [task[id].doc[1] EXCEPT !.status = ERROR]
       IN /\ docs' = SaveRow(docs, d)
          /\ task' = [task EXCEPT ![id] =
                         [@ EXCEPT !.pc = "done", !.doc = << >>,
                                   !.stages = Append(@, "error")]]
    /\ UNCHANGED <<s3, index, collection, nextId, up, nextDel, del, calls>>
    /\ UNCHANGED fnVars

\* ------------------------------------------- DELETE /documents/{id}
\* variant: the collaborators are called although there is no row
DeleteGet_NoEarlyReturn(id) ==
    /\ (nextId - 1) + calls + (nextDel - 1) < MaxOps
    /\ nextDel' = nextDel + 1
    /\ del' = [del EXCEPT ![nextDel] =
                  [@ EXCEPT !.pc = "s3", !.id = id,
                            !.key = IF id \in DOMAIN docs
                                    THEN docs[id].filename ELSE NoName]]
    /\ UNCHANGED <<docs, s3, index, collection, nextId, up, task, calls>>
    /\ UNCHANGED fnVars

\* document_service.py:127-131, server.py:426-431  get_document; False, and
\* from the handler 404 inside the try block, when there is no row
DeleteGet(id) ==
    /\ (nextId - 1) + calls + (nextDel - 1) < MaxOps
    /\ id <= nextId      \* the id issued next stands for every id without a row
    /\ nextDel' = nextDel + 1
    /\ LET k == nextDel
       IN IF id \in DOMAIN docs
          THEN del' = [del EXCEPT ![k] =
                          [@ EXCEPT !.pc = "s3", !.id = id,
                                    !.key = docs[id].filename]]
          ELSE del' = [del EXCEPT ![k] =
                          [@ EXCEPT !.pc = "done", !.id = id, !.result = FALSE,
                                    !.resp = DeleteBoundary(404)]]
    /\ UNCHANGED <<docs, s3, index, collection, nextId, up, task, calls>>
    /\ UNCHANGED fnVars

\* document_service.py:133-147, s3_upload.py:64-69, qdrant_service.py:134-149
\* delete_file and delete_points are called one after the other without an
\* await in between; a failure of either is logged and swallowed. Deleting
\* from a collection that does not exist fails.
DeleteCollaborators(k, ok, qok) ==
    /\ del[k].pc = "s3"
    /\ qok \/ collection
    /\ LET qdone == qok /\ collection
       IN /\ s3' = IF ok THEN DeleteObject(s3, del[k].key) ELSE s3
          /\ index' = IF qdone THEN [index EXCEPT ![del[k].id] = 0] ELSE index
          /\ del' = [del EXCEPT ![k] =
                        [@ EXCEPT !.pc = "db", !.calls = {"s3", "qdrant"},
                                  !.failures = (IF ok THEN {} ELSE {"s3"})
                                        \cup (IF qdone THEN {} ELSE {"qdrant"})]]
    /\ UNCHANGED <<docs, collection, nextId, up, task, nextDel, calls>>
    /\ UNCHANGED fnVars

\* document_service.py:150-154, server.py:429
DeleteDb(k) ==
    /\ del[k].pc = "db"
    /\ docs' = DeleteRow(docs, del[k].id)
    /\ del' = [del EXCEPT ![k] =
                  [@ EXCEPT !.pc = "done", !.calls = @ \cup {"db"},
                            !.result = TRUE, !.resp = 200]]
    /\ UNCHANGED <<s3, index, collection, nextId, up, task, nextDel, calls>>
    /\ UNCHANGED fnVars

\* ------------------------------------------------------- specification
Next ==
    \/ \E file \in Files : UploadCheck(file)
    \/ \E r \in DocIds, ok \in BOOLEAN : UploadPut(r, ok)
    \/ \E r \in DocIds : UploadSave(r)
    \/ \E id \in DocIds : ProcessGet(id)
    \/ \E id \in DocIds : ProcessSetProcessing(id)
    \/ \E id \in DocIds, ok \in BOOLEAN, xok \in BOOLEAN : ProcessFetch(id, ok, xok)
    \/ \E id \in DocIds : process_document_with_error_handling(id)
    \/ \E id \in DocIds, ok \in BOOLEAN, cok \in BOOLEAN : ProcessEmbed(id, ok, cok)
    \/ \E id \in DocIds, ok \in BOOLEAN : ProcessCreateCollection(id, ok)
    \/ \E id \in DocIds, ok \in BOOLEAN : ProcessUpsert(id, ok)
    \/ \E id \in DocIds : ProcessFinish(id)
    \/ \E id \in DocIds : ProcessError(id)
    \/ \E id \in DocIds : DeleteGet(id)
    \/ \E k \in DelReqs, ok \in BOOLEAN, qok \in BOOLEAN : DeleteCollaborators(k, ok, qok)
    \/ \E k \in DelReqs : DeleteDb(k)

Spec == Init /\ [][Next]_vars

\* the same requests and tasks over files with and without a PDF filename
NextRequests ==
    \/ \E file \in RequestFiles : UploadCheck(file)
    \/ \E r \in DocIds, ok \in BOOLEAN : UploadPut(r, ok)
    \/ \E r \in DocIds : UploadSave(r)
    \/ \E id \in DocIds : ProcessGet(id)
    \/ \E id \in DocIds : ProcessSetProcessing(id)
    \/ \E id \in DocIds, ok \in BOOLEAN, xok \in BOOLEAN : ProcessFetch(id, ok, xok)
    \/ \E id \in DocIds : process_document_with_error_handling(id)
    \/ \E id \in DocIds, ok \in BOOLEAN, cok \in BOOLEAN : ProcessEmbed(id, ok, cok)
    \/ \E id \in DocIds, ok \in BOOLEAN : ProcessCreateCollection(id, ok)
    \/ \E id \in DocIds, ok \in BOOLEAN : ProcessUpsert(id, ok)
    \/ \E id \in DocIds : ProcessFinish(id)
    \/ \E id \in DocIds : ProcessError(id)
    \/ \E id \in DocIds : DeleteGet(id)
    \/ \E k \in DelReqs, ok \in BOOLEAN, qok \in BOOLEAN : DeleteCollaborators(k, ok, qok)
    \/ \E k \in DelReqs : DeleteDb(k)

SpecRequests == Init /\ [][NextRequests]_vars

\* ===================================================== ensure_token_limit
\* document_service.py:185-210, studied on its own. A chunk is its tokens
\* 0 .. n-1, given by their count n; a fragment is the text of the tokens
\* lo .. hi-1 of chunk number `chunk` (tokenize and detokenize are those of
\* the tiktoken codec, whose decode(encode(text)) is text).
MaxChunks == 2       \* chunks in the list handed to ensure_token_limit
MaxWindows == 10     \* windows of one chunk that are recorded

\* document_service.py:198
Overlap == 50

\* the token counts of the chunks and the values of max_tokens that are tried
TokenCounts == {0, 1, 49, 50, 51, 60}
MaxTokensValues == {1, 49, 50, 51, 55, 60}

ChunkLists == UNION { [1..n -> TokenCounts] : n \in 0..MaxChunks }

Max(a, b) == IF a >= b THEN a ELSE b

\* tokens[lo:hi] of chunk k, detokenized
Fragment(k, lo, hi) == [chunk |-> k, lo |-> lo, hi |-> hi]

\* the chunk itself, appended as it is
Whole(k, n) == Fragment(k, 0, n)

\* final_chunks.append: the list grows for as long as the loop runs; of a
\* list that never stops growing the first MaxChunks * MaxWindows fragments
\* are recorded
AppendFragment(out, f) ==
    IF Len(out) < MaxChunks * MaxWindows THEN Append(out, f) ELSE out

InitTokenLimit ==
    /\ NoDocuments
    /\ em = IdleEmbed
    /\ ups = IdleUpsert
    /\ qa = IdleQA
    /\ ls = IdleListing
    /\ \E c \in ChunkLists, m \in MaxTokensValues :
          tl = [IdleTokenLimit EXCEPT !.pc = "for", !.chunks = c,
                                      !.max_tokens = m, !.k = 1]

\* variant: a chunk within the limit is dropped
TokenLimitChunk_DropSmall ==
    /\ tl.pc = "for"
    /\ tl.k <= Len(tl.chunks)
    /\ IF tl.chunks[tl.k] <= tl.max_tokens
       THEN tl' = [tl EXCEPT !.k = @ + 1]
       ELSE tl' = [tl EXCEPT !.pc = "while", !.start_idx = 0]
    /\ UNCHANGED <<docVars, em, ups, qa, ls>>

\* document_service.py:192-199  the next chunk of the for loop: appended as
\* it is when its tokens are within the limit, sliced otherwise
TokenLimitChunk ==
    /\ tl.pc = "for"
    /\ tl.k <= Len(tl.chunks)
    /\ IF tl.chunks[tl.k] <= tl.max_tokens
       THEN tl' = [tl EXCEPT !.k = @ + 1,
                             !.final_chunks =
                                 AppendFragment(@, Whole(tl.k, tl.chunks[tl.k]))]
       ELSE tl' = [tl EXCEPT !.pc = "while", !.start_idx = 0]
    /\ UNCHANGED <<docVars, em, ups, qa, ls>>

\* document_service.py:200-202  the test of the while loop and the window
\* start_idx .. end_idx of the iteration
TokenLimitWindow ==
    /\ tl.pc = "while"
    /\ LET n == tl.chunks[tl.k]
       IN IF tl.start_idx < n
          THEN tl' = [tl EXCEPT !.pc = "append",
                                !.end_idx = Min(tl.start_idx + tl.max_tokens, n)]
          ELSE tl' = [tl EXCEPT !.pc = "for", !.k = @ + 1]
    /\ UNCHANGED <<docVars, em, ups, qa, ls>>

\* variant: start_idx moves Overlap tokens past end_idx
TokenLimitAppend_OverlapAhead ==
    /\ tl.pc = "append"
    /\ LET n == tl.chunks[tl.k]
           atEnd == tl.end_idx = n
       IN tl' = [tl EXCEPT !.final_chunks =
                               AppendFragment(@, Fragment(tl.k, tl.start_idx, tl.end_idx)),
                           !.start_idx = Max(tl.end_idx + Overlap, 0),
                           !.pc = IF atEnd THEN "for" ELSE "while",
                           !.k = IF atEnd THEN @ + 1 ELSE @]
    /\ UNCHANGED <<docVars, em, ups, qa, ls>>

\* document_service.py:203-208  the window is appended, start_idx moves to
\* Overlap tokens before end_idx (never below 0), and the loop is left when
\* the window has reached the end of the tokens
TokenLimitAppend ==
    /\ tl.pc = "append"
    /\ LET n == tl.chunks[tl.k]
           atEnd == tl.end_idx = n
       IN tl' = [tl EXCEPT !.final_chunks =
                               AppendFragment(@, Fragment(tl.k, tl.start_idx, tl.end_idx)),
                           !.start_idx = Max(tl.end_idx - Overlap, 0),
                           !.pc = IF atEnd THEN "for" ELSE "while",
                           !.k = IF atEnd THEN @ + 1 ELSE @]
    /\ UNCHANGED <<docVars, em, ups, qa, ls>>

\* document_service.py:210  return final_chunks
TokenLimitReturn ==
    /\ tl.pc = "for"
    /\ tl.k > Len(tl.chunks)
    /\ tl' = [tl EXCEPT !.pc = "returned"]
    /\ UNCHANGED <<docVars, em, ups, qa, ls>>

NextTokenLimit ==
    \/ TokenLimitChunk
    \/ TokenLimitWindow
    \/ TokenLimitAppend
    \/ TokenLimitReturn

\* the call is a synchronous function: it keeps running until it returns
SpecTokenLimit ==
    InitTokenLimit /\ [][NextTokenLimit]_vars /\ WF_vars(NextTokenLimit)

\* ============================================================ embed_chunks
\* document_service.py:212-222 and the rest of process_document that follows
\* it (lines 283-319), for one document whose chunks are ready. Chunk j of
\* the document is the text j; the embedding capability answers a request
\* with one entry per input text, in the order of the inputs.
MaxEmbedChunks == 33   \* chunks of the document

\* document_service.py:215
BATCH_SIZE == 16

\* entry.embedding of the entry that answers input text x
Embedding(x) == [of |-> x]

\* response.data of a request that succeeds
ResponseData(batch) == [j \in 1..Len(batch) |-> Embedding(batch[j])]

\* variant: a request carries every chunk from position i on
Batch_Rest(chunks, i) == SubSeq(chunks, i + 1, Len(chunks))

\* chunks[i : i + BATCH_SIZE]
Batch(chunks, i) == SubSeq(chunks, i + 1, Min(i + BATCH_SIZE, Len(chunks)))

InitEmbed ==
    /\ NoDocuments
    /\ tl = IdleTokenLimit
    /\ ups = IdleUpsert
    /\ qa = IdleQA
    /\ ls = IdleListing
    /\ \E n \in 0..MaxEmbedChunks :
          em = [IdleEmbed EXCEPT !.pc = "for", !.chunks = [j \in 1..n |-> j],
                                 !.status = PROCESSING]

\* variant: a failed request ends the loop and the vectors of the earlier
\* batches are returned
EmbedBatch_KeepsPartial(ok) ==
    /\ em.pc = "for"
    /\ em.i < Len(em.chunks)
    /\ LET batch == Batch(em.chunks, em.i)
       IN IF ok
          THEN em' = [em EXCEPT !.requests = Append(@, batch),
                                !.embeddings = @ \o ResponseData(batch),
                                !.i = @ + BATCH_SIZE]
          ELSE em' = [em EXCEPT !.requests = Append(@, batch),
                                !.failed = TRUE,
                                !.i = Len(em.chunks)]
    /\ UNCHANGED <<docVars, tl, ups, qa, ls>>

\* document_service.py:216-221  one iteration of the for loop: a request for
\* the next batch, whose entries are appended; a request that fails raises
\* out of embed_chunks and the list built so far is lost
EmbedBatch(ok) ==
    /\ em.pc = "for"
    /\ em.i < Len(em.chunks)
    /\ LET batch == Batch(em.chunks, em.i)
       IN IF ok
          THEN em' = [em EXCEPT !.requests = Append(@, batch),
                                !.embeddings = @ \o ResponseData(batch),
                                !.i = @ + BATCH_SIZE]
          ELSE em' = [em EXCEPT !.requests = Append(@, batch),
                                !.failed = TRUE,
                                !.embeddings = << >>,
                                !.pc = "except"]
    /\ UNCHANGED <<docVars, tl, ups, qa, ls>>

\* document_service.py:222, 284-286  return embeddings
EmbedReturn ==
    /\ em.pc = "for"
    /\ em.i >= Len(em.chunks)
    /\ em' = [em EXCEPT !.pc = "qdrant", !.returned = <<em.embeddings>>]
    /\ UNCHANGED <<docVars, tl, ups, qa, ls>>

\* document_service.py:293-300, qdrant_service.py:85-100  the Qdrant
\* operations: one point per returned embedding is upserted
EmbedQdrant(ok) ==
    /\ em.pc = "qdrant"
    /\ IF ok
       THEN em' = [em EXCEPT !.pc = "finish", !.upserted = Len(em.returned[1])]
       ELSE em' = [em EXCEPT !.pc = "except"]
    /\ UNCHANGED <<docVars, tl, ups, qa, ls>>

\* document_service.py:303-314  PROCESSED is saved; chunks[0] raises when
\* there is no chunk
EmbedFinish ==
    /\ em.pc = "finish"
    /\ IF Len(em.chunks) = 0
       THEN em' = [em EXCEPT !.pc = "except"]
       ELSE em' = [em EXCEPT !.pc = "done", !.status = PROCESSED]
    /\ UNCHANGED <<docVars, tl, ups, qa, ls>>

\* document_service.py:316-319  ERROR is saved
EmbedExcept ==
    /\ em.pc = "except"
    /\ em' = [em EXCEPT !.pc = "done", !.status = ERROR]
    /\ UNCHANGED <<docVars, tl, ups, qa, ls>>

NextEmbed ==
    \/ \E ok \in BOOLEAN : EmbedBatch(ok)
    \/ EmbedReturn
    \/ \E ok \in BOOLEAN : EmbedQdrant(ok)
    \/ EmbedFinish
    \/ EmbedExcept

SpecEmbed == InitEmbed /\ [][NextEmbed]_vars

\* =========================================================== upsert_points
\* qdrant_service.py:76-132, studied on its own: the points of one document
\* are built and sent to the collection, which exists. Fragment j of the
\* document is the text j and its vector is Embedding(j).
MaxPoints == 401   \* fragments of the document

\* uuid7().hex of the point built at position idx: a fresh identifier
PointId(idx) == [uuid |-> idx]

\* variant: one identifier is shared by the points of the document
Point_SharedId(ups_, idx) ==
    [id |-> PointId(idx),
     vector |-> ups_.embeddings[idx],
     payload |-> [point_id |-> PointId(1),
                  document_id |-> ups_.document_id,
                  document_filename |-> ups_.document_filename,
                  content |-> ups_.chunks[idx]]]

\* qdrant_service.py:87-99  the PointStruct built for embeddings[idx]
Point(ups_, idx) ==
    [id |-> PointId(idx),
     vector |-> ups_.embeddings[idx],
     payload |-> [point_id |-> PointId(idx),
                  document_id |-> ups_.document_id,
                  document_filename |-> ups_.document_filename,
                  content |-> ups_.chunks[idx]]]

\* variant: the points are sent in one call whatever their number
ListOfPoints_Single(points) == <<points>>

\* qdrant_service.py:119-131  the point lists of the upsert calls: slices of
\* UpsertBatch points from UpsertBatch points on, one list otherwise
ListOfPoints(points) ==
    IF Len(points) >= UpsertBatch
    THEN [c \in 1..((Len(points) + UpsertBatch - 1) \div UpsertBatch) |->
             SubSeq(points, (c - 1) * UpsertBatch + 1,
                    Min(c * UpsertBatch, Len(points)))]
    ELSE <<points>>

InitUpsert ==
    /\ NoDocuments
    /\ tl = IdleTokenLimit
    /\ em = IdleEmbed
    /\ qa = IdleQA
    /\ ls = IdleListing
    /\ \E n \in 0..MaxPoints :
          ups = [IdleUpsert EXCEPT !.pc = "embed", !.document_id = 1,
                                   !.document_filename = APdf,
                                   !.chunks = [j \in 1..n |-> j],
                                   !.embeddings = [j \in 1..n |-> Embedding(j)]]

\* qdrant_service.py:84-103, 113  embed: one point per entry of embeddings
UpsertEmbed ==
    /\ ups.pc = "embed"
    /\ ups' = [ups EXCEPT !.pc = "upsert",
                          !.points = [idx \in 1..Len(ups.embeddings) |-> Point(ups, idx)]]
    /\ UNCHANGED <<docVars, tl, em, qa, ls>>

\* qdrant_service.py:122-131  the next client.upsert call; a call that fails
\* raises out of upsert_points and leaves the earlier calls in the collection
UpsertCall(ok) ==
    /\ ups.pc = "upsert"
    /\ Len(ups.calls) < Len(ListOfPoints(ups.points))
    /\ IF ok
       THEN ups' = [ups EXCEPT !.calls =
                                   Append(@, ListOfPoints(ups.points)[Len(ups.calls) + 1])]
       ELSE ups' = [ups EXCEPT !.pc = "raised", !.failed = TRUE]
    /\ UNCHANGED <<docVars, tl, em, qa, ls>>

\* qdrant_service.py:132  return points
UpsertReturn ==
    /\ ups.pc = "upsert"
    /\ Len(ups.calls) = Len(ListOfPoints(ups.points))
    /\ ups' = [ups EXCEPT !.pc = "returned"]
    /\ UNCHANGED <<docVars, tl, em, qa, ls>>

NextUpsert ==
    \/ UpsertEmbed
    \/ \E ok \in BOOLEAN : UpsertCall(ok)
    \/ UpsertReturn

SpecUpsert == InitUpsert /\ [][NextUpsert]_vars

\* ========================================================= answer_question
\* qa_service.py:132-161 and 180-278: concurrent answer_question calls over
\* an index that holds the points `corpus` (in the order of their similarity
\* to the question), next to a process_document task whose embed_chunks
\* request runs in the thread pool.
MaxAsk == 2       \* answer_question calls
MaxIndexed == 2   \* points in the index

MaxFeedback == 2  \* submit_feedback and delete_feedback requests
MaxSessions == 2  \* calls whose sessions receive feedback

AskIds == 1..MaxAsk
FbIds == 1..MaxFeedback
SessionIds == 1..MaxSessions

\* models/documents.py:41  the ratings that are tried (1 to 5 are accepted)
Ratings == {1, 5}

\* models/documents.py:64  feedback_rating: Optional[int] = None
NoRating == 0

\* the values of context_length that are tried (qa_service.py:185: default 5)
ContextLengths == {0, 1, 5}

\* qa_service.py:185, server.py:486  the context_length of a request
DefaultContextLength == 5

\* the questions that are asked (models/documents.py:23: a non-empty string)
Questions == {"what", "why"}

\* the question of the sessions that receive feedback
RatedQuestion == "what"

\* qdrant_service.py:86-100  the payload of the point made of fragment j of
\* a document
Payload(j) ==
    [point_id |-> j, document_id |-> (j + 1) \div 2,
     document_filename |-> [of |-> (j + 1) \div 2], content |-> [text |-> j]]

\* the points of the index: two per document, best match first
Corpus(n) ==
    [j \in 1..n |-> [point_id |-> j, document_id |-> (j + 1) \div 2,
                     score |-> 100 - 10 * j, payload |-> Payload(j)]]

\* qdrant_service.py:157-171  the context_length best matches
Search(corpus, context_length) ==
    SubSeq(corpus, 1, Min(context_length, Len(corpus)))

\* qa_service.py:188-189  a call that has not started
NewAsk ==
    [pc |-> "new", context_length |-> 0, sources |-> << >>, sem |-> 0,
     error |-> "", llm_calls |-> 0, question |-> "", prompt |-> << >>,
     answer |-> << >>, response |-> << >>]

\* a feedback request that has not arrived
NewFeedback ==
    [pc |-> "new", session_id |-> 0, rating |-> 0, resp |-> 0]

InitQA ==
    /\ NoDocuments
    /\ tl = IdleTokenLimit
    /\ em = IdleEmbed
    /\ ups = IdleUpsert
    /\ ls = IdleListing
    /\ \E n \in 0..MaxIndexed :
          qa = [corpus |-> Corpus(n), ask |-> [a \in AskIds |-> NewAsk],
                history |-> {}, embedding |-> FALSE,
                feedback |-> {}, next_feedback |-> 1,
                fb |-> [f \in FbIds |-> NewFeedback],
                search |-> IdleSearch, batch |-> IdleBatch]

\* variant: the call goes on when the search has found nothing
AskSearch_NoCheck(a, question, context_length, ok) ==
    /\ qa.ask[a].pc = "new"
    /\ \A b \in AskIds : b < a => qa.ask[b].pc # "new"
    /\ LET sources == Search(qa.corpus, context_length)
       IN IF ~ok
          THEN qa' = [qa EXCEPT !.ask[a] =
                         [@ EXCEPT !.pc = "raised", !.error = "search",
                                   !.context_length = context_length,
                                   !.question = question]]
          ELSE qa' = [qa EXCEPT !.ask[a] =
                         [@ EXCEPT !.pc = "send", !.sources = sources, !.sem = 2,
                                   !.context_length = context_length,
                                   !.question = question]]
    /\ UNCHANGED <<docVars, tl, em, ups, ls>>

\* qa_service.py:188-212, 223  the search; ValueError when it has found
\* nothing; otherwise a Semaphore(2) is built for this call
AskSearch(a, question, context_length, ok) ==
    /\ qa.ask[a].pc = "new"
    /\ \A b \in AskIds : b < a => qa.ask[b].pc # "new"
    /\ LET sources == Search(qa.corpus, context_length)
       IN IF ~ok
          THEN qa' = [qa EXCEPT !.ask[a] =
                         [@ EXCEPT !.pc = "raised", !.error = "search",
                                   !.context_length = context_length,
                                   !.question = question]]
          ELSE IF sources = << >>
          THEN qa' = [qa EXCEPT !.ask[a] =
                         [@ EXCEPT !.pc = "raised", !.error = "no_context",
                                   !.context_length = context_length,
                                   !.question = question]]
          ELSE qa' = [qa EXCEPT !.ask[a] =
                         [@ EXCEPT !.pc = "send", !.sources = sources, !.sem = 2,
                                   !.context_length = context_length,
                                   !.question = question]]
    /\ UNCHANGED <<docVars, tl, em, ups, ls>>

\* qa_service.py:215-220  one line of the context per retrieved point: its
\* document id, its point id and its text
ContextLine(point) ==
    [document_id |-> point.payload.document_id,
     chunk_id |-> point.payload.point_id,
     text |-> point.payload.content]

\* variant: the context is made of the best match only
Context_BestOnly(sources) == <<ContextLine(sources[1])>>

\* qa_service.py:215-220  the lines of the context, in the order of the search
Context(sources) == [j \in 1..Len(sources) |-> ContextLine(sources[j])]

\* qa_service.py:144-152  the user message sent to the language model
Prompt(question, search_results) ==
    [question |-> question, context |-> search_results]

\* qa_service.py:241  the content of the first choice of the completion
Answer(prompt) == [to |-> prompt]

\* qa_service.py:136-137, 215-226  the context is built; async with sem: the
\* call's own semaphore is taken and the request to the language model is sent
AskSendRequest(a) ==
    /\ qa.ask[a].pc = "send"
    /\ qa.ask[a].sem > 0
    /\ qa' = [qa EXCEPT !.ask[a] =
                 [@ EXCEPT !.pc = "llm", !.sem = @ - 1, !.llm_calls = @ + 1,
                           !.prompt = Prompt(qa.ask[a].question,
                                             Context(qa.ask[a].sources))]]
    /\ UNCHANGED <<docVars, tl, em, ups, ls>>

\* variant: a failure of the language model is swallowed and the call goes on
AskResponse_SwallowsFailure(a, ok) ==
    /\ qa.ask[a].pc = "llm"
    /\ qa' = [qa EXCEPT !.ask[a] =
                 [@ EXCEPT !.sem = @ + 1,
                           !.pc = "save",
                           !.error = IF ok THEN "" ELSE "llm",
                           !.answer = IF ok THEN Answer(qa.ask[a].prompt)
                                          ELSE << >>]]
    /\ UNCHANGED <<docVars, tl, em, ups, ls>>

\* qa_service.py:136-161, 222-226, 241  the language model answers or fails;
\* the semaphore is released
AskResponse(a, ok) ==
    /\ qa.ask[a].pc = "llm"
    /\ qa' = [qa EXCEPT !.ask[a] =
                 [@ EXCEPT !.sem = @ + 1,
                           !.pc = IF ok THEN "save" ELSE "raised",
                           !.error = IF ok THEN "" ELSE "llm",
                           !.answer = IF ok THEN Answer(qa.ask[a].prompt)
                                          ELSE << >>]]
    /\ UNCHANGED <<docVars, tl, em, ups, ls>>

RECURSIVE SumScores(_)
SumScores(sources) ==
    IF sources = << >> THEN 0 ELSE Head(sources).score + SumScores(Tail(sources))

\* variant: the confidence is the score of the best match
Confidence_Best(sources) == [num |-> sources[1].score, den |-> 1]

\* qa_service.py:242-244  sum(scores) / len(sources), as the fraction num/den
Confidence(sources) == [num |-> SumScores(sources), den |-> Len(sources)]

\* qa_service.py:230-239  one entry per retrieved point, in the order of the
\* search
FormattedSources(sources) ==
    [j \in 1..Len(sources) |->
        [point_id |-> sources[j].payload.point_id,
         document_id |-> sources[j].payload.document_id,
         document_name |-> sources[j].payload.document_filename,
         content |-> sources[j].payload.content,
         score |-> sources[j].score]]

\* qa_service.py:189  str(uuid.uuid4()): the session id of call a
SessionId(a) == a

\* qa_service.py:246-253  the response of call a
Response(a) ==
    [question |-> qa.ask[a].question,
     answer |-> qa.ask[a].answer,
     confidence_score |-> Confidence(qa.ask[a].sources),
     sources |-> FormattedSources(qa.ask[a].sources),
     session_id |-> SessionId(a)]

\* the document ids of the retrieved points
ContributingIds(sources) ==
    {sources[j].payload.document_id : j \in 1..Len(sources)}

\* variant: every document id of the sources, as often as it occurs
DocumentIds_Repeated(sources) ==
    [d \in ContributingIds(sources) |->
        Cardinality({j \in 1..Len(sources) : sources[j].payload.document_id = d})]

\* qa_service.py:256  list(set(...)): each document id of the sources once;
\* the collection is the function from its members to their number of
\* occurrences
DocumentIds(sources) == [d \in ContributingIds(sources) |-> 1]

\* the QAHistory built by qa_service.py:255-265
QARecord(a) ==
    [id |-> SessionId(a),
     question |-> qa.ask[a].question,
     answer |-> qa.ask[a].answer,
     timestamp |-> Now("answered", a),
     document_ids |-> DocumentIds(qa.ask[a].sources),
     confidence_score |-> Confidence(qa.ask[a].sources),
     feedback_rating |-> NoRating]

\* qa_service.py:77-97  INSERT OR REPLACE INTO qa_history
SaveQARecord(table, row) == {r \in table : r.id # row.id} \cup {row}

\* qa_service.py:266-278  the record is saved and the response returned
AskSave(a) ==
    /\ qa.ask[a].pc = "save"
    /\ qa' = [qa EXCEPT !.history = SaveQARecord(@, QARecord(a)),
                        !.ask[a] = [@ EXCEPT !.pc = "done",
                                             !.response = Response(a)]]
    /\ UNCHANGED <<docVars, tl, em, ups, ls>>

\* document_service.py:216-218, 284-286  a process_document task sends a
\* request of embed_chunks from the thread pool; no semaphore is involved
DocEmbedRequest ==
    /\ ~qa.embedding
    /\ qa' = [qa EXCEPT !.embedding = TRUE]
    /\ UNCHANGED <<docVars, tl, em, ups, ls>>

\* document_service.py:218-220  the embedding capability has answered
DocEmbedResponse ==
    /\ qa.embedding
    /\ qa' = [qa EXCEPT !.embedding = FALSE]
    /\ UNCHANGED <<docVars, tl, em, ups, ls>>

\* server.py:668-674  the 404 of delete_feedback is raised inside the try
\* block whose handler turns every exception into a 500
FeedbackBoundary(code) == 500

\* qa_service.py:99-118  _save_feedback: a row is inserted under the next
\* AUTOINCREMENT id, whether or not the session exists
SubmitSave(f, session_id, rating) ==
    /\ qa.fb[f].pc = "new"
    /\ \A g \in FbIds : g < f => qa.fb[g].pc # "new"
    /\ qa' = [qa EXCEPT
                 !.feedback = @ \cup {[id |-> qa.next_feedback,
                                       session_id |-> session_id,
                                       rating |-> rating,
                                       timestamp |-> Now("feedback", qa.next_feedback)]},
                 !.next_feedback = @ + 1,
                 !.fb[f] = [@ EXCEPT !.pc = "update",
                                     !.session_id = session_id,
                                     !.rating = rating]]
    /\ UNCHANGED <<docVars, tl, em, ups, ls>>

\* variant: the update replaces the answer of the session by the rating
SubmitUpdate_TouchesAnswer(f) ==
    /\ qa.fb[f].pc = "update"
    /\ qa' = [qa EXCEPT
                 !.history = {IF r.id = qa.fb[f].session_id
                              THEN [r EXCEPT !.answer.to.question = "rated"]
                              ELSE r : r \in @},
                 !.fb[f] = [NewFeedback EXCEPT !.pc = "done", !.resp = 200]]
    /\ UNCHANGED <<docVars, tl, em, ups, ls>>

\* qa_service.py:300-310, server.py:579-580  UPDATE qa_history SET
\* feedback_rating = ? WHERE id = ?; the request is answered and its
\* arguments are forgotten
SubmitUpdate(f) ==
    /\ qa.fb[f].pc = "update"
    /\ qa' = [qa EXCEPT
                 !.history = {IF r.id = qa.fb[f].session_id
                              THEN [r EXCEPT !.feedback_rating = qa.fb[f].rating]
                              ELSE r : r \in @},
                 !.fb[f] = [NewFeedback EXCEPT !.pc = "done", !.resp = 200]]
    /\ UNCHANGED <<docVars, tl, em, ups, ls>>

\* qa_service.py:340-351, server.py:668-674  DELETE FROM feedback WHERE
\* session_id = ?; qa_history is not written; rowcount > 0 is the success
DeleteFeedback(f, session_id) ==
    /\ qa.fb[f].pc = "new"
    /\ \A g \in FbIds : g < f => qa.fb[g].pc # "new"
    /\ LET success == \E r \in qa.feedback : r.session_id = session_id
       IN qa' = [qa EXCEPT
                    !.feedback = {r \in @ : r.session_id # session_id},
                    !.fb[f] = [NewFeedback EXCEPT
                                  !.pc = "done",
                                  !.resp = IF success THEN 200
                                           ELSE FeedbackBoundary(404)]]
    /\ UNCHANGED <<docVars, tl, em, ups, ls>>

NextQA ==
    \/ \E a \in AskIds, q \in Questions, k \in ContextLengths, ok \in BOOLEAN :
          AskSearch(a, q, k, ok)
    \/ \E a \in AskIds : AskSendRequest(a)
    \/ \E a \in AskIds, ok \in BOOLEAN : AskResponse(a, ok)
    \/ \E a \in AskIds : AskSave(a)
    \/ DocEmbedRequest
    \/ DocEmbedResponse

SpecQA == InitQA /\ [][NextQA]_vars

\* answer_question, submit_feedback and delete_feedback requests over the
\* sessions of the first MaxSessions calls, which ask the same question; every
\* search and every completion succeeds
NextFeedback ==
    \/ \E a \in SessionIds :
          AskSearch(a, RatedQuestion, DefaultContextLength, TRUE)
    \/ \E a \in SessionIds : AskSendRequest(a)
    \/ \E a \in SessionIds : AskResponse(a, TRUE)
    \/ \E a \in SessionIds : AskSave(a)
    \/ \E f \in FbIds, sid \in SessionIds, rating \in Ratings :
          SubmitSave(f, sid, rating)
    \/ \E f \in FbIds : SubmitUpdate(f)
    \/ \E f \in FbIds, sid \in SessionIds : DeleteFeedback(f, sid)

SpecFeedback == InitQA /\ [][NextFeedback]_vars

\* ============================== get_qa_history and get_feedback_history
\* qa_service.py:280-293 and 312-338: one listing over tables whose rows
\* carry the timestamps written by _save_qa_record and _save_feedback.
MaxRows == 2   \* rows of each table

\* the values of datetime.now() that are tried: [seconds, microseconds]
Instants == {[s |-> 1, us |-> 0], [s |-> 1, us |-> 5], [s |-> 2, us |-> 0]}

\* the values of limit and offset that are tried (server.py:531, 623)
Limits == {0, 1, 2, 10}
Offsets == {0, 1, 3}

\* datetime.isoformat (qa_service.py:90, 115): the text of an instant, as
\* the sequence of its fixed-width fields; the microseconds are left out
\* when they are 0
isoformat(t) == IF t.us = 0 THEN <<t.s>> ELSE <<t.s, t.us>>

\* datetime.fromisoformat (qa_service.py:126, 335)
fromisoformat(x) == [s |-> x[1], us |-> IF Len(x) = 2 THEN x[2] ELSE 0]

\* the comparison of two TEXT values by SQLite: field by field, a proper
\* prefix before the longer text
RECURSIVE TextLess(_, _)
TextLess(x, y) ==
    IF y = << >> THEN FALSE
    ELSE IF x = << >> THEN TRUE
    ELSE IF Head(x) # Head(y) THEN Head(x) < Head(y)
    ELSE TextLess(Tail(x), Tail(y))

\* the tables of n rows: row i bears id i and the text of its timestamp
Tables ==
    UNION { [1..n -> Instants] : n \in 0..MaxRows }

StoredRows(times) ==
    [i \in DOMAIN times |-> [id |-> i, timestamp |-> isoformat(times[i])]]

RowOrders(n) ==
    {p \in [1..n -> 1..n] : \A i, j \in 1..n : p[i] = p[j] => i = j}

\* ORDER BY timestamp DESC (qa_service.py:287, 321): the orders in which
\* SQLite may hand out the rows
OrderByTimestampDesc(table) ==
    {[j \in 1..Len(table) |-> table[p[j]]] : p \in
        {q \in RowOrders(Len(table)) :
            \A i, j \in 1..Len(table) :
                i < j => ~TextLess(table[q[i]].timestamp, table[q[j]].timestamp)}}

\* variant: the offset is ignored
Page_NoOffset(rows, limit, offset) == SubSeq(rows, 1, Min(limit, Len(rows)))

\* LIMIT ? OFFSET ? (qa_service.py:288, 322), for limit >= 0 and offset >= 0
Page(rows, limit, offset) ==
    SubSeq(rows, offset + 1, Min(offset + limit, Len(rows)))

\* qa_service.py:120-130, 327-337  the records made of the rows
FromRows(rows) ==
    [j \in 1..Len(rows) |->
        [id |-> rows[j].id, timestamp |-> fromisoformat(rows[j].timestamp)]]

InitListing ==
    /\ NoDocuments
    /\ tl = IdleTokenLimit
    /\ em = IdleEmbed
    /\ ups = IdleUpsert
    /\ qa = IdleQA
    /\ \E h \in Tables, f \in Tables :
          ls = [IdleListing EXCEPT !.qa_history = StoredRows(h),
                                   !.feedback = StoredRows(f)]

\* qa_service.py:280-293
GetQAHistory(limit, offset) ==
    /\ ls.pc = "idle"
    /\ \E rows \in OrderByTimestampDesc(ls.qa_history) :
          ls' = [ls EXCEPT !.pc = "returned", !.of = "qa_history",
                           !.limit = limit, !.offset = offset,
                           !.result = FromRows(Page(rows, limit, offset))]
    /\ UNCHANGED <<docVars, tl, em, ups, qa>>

\* qa_service.py:312-338
GetFeedbackHistory(limit, offset) ==
    /\ ls.pc = "idle"
    /\ \E rows \in OrderByTimestampDesc(ls.feedback) :
          ls' = [ls EXCEPT !.pc = "returned", !.of = "feedback",
                           !.limit = limit, !.offset = offset,
                           !.result = FromRows(Page(rows, limit, offset))]
    /\ UNCHANGED <<docVars, tl, em, ups, qa>>

NextListing ==
    \/ \E limit \in Limits, offset \in Offsets : GetQAHistory(limit, offset)
    \/ \E limit \in Limits, offset \in Offsets : GetFeedbackHistory(limit, offset)

SpecListing == InitListing /\ [][NextListing]_vars

\* ============================================================ Qdrant.search
\* qdrant_service.py:151-171: one call of search over an index whose points
\* have the given similarity scores to the question.
MaxSearchPoints == 2   \* points in the index

\* the similarity scores that are tried
Scores == {70, 80, 90}

\* the values of context_length that are tried
TopK == {0, 1, 2, 5}

\* the indexes of n points: point j has the score scores[j]
SearchIndexes == UNION { [1..n -> Scores] : n \in 0..MaxSearchPoints }

\* client.search of the index service (qdrant_service.py:157-170): the
\* `limit` best points, best first; points of equal score in either order
IndexHits(scores, limit) ==
    {[j \in 1..Min(limit, Len(scores)) |-> [id |-> p[j], score |-> scores[p[j]]]] :
        p \in {q \in RowOrders(Len(scores)) :
                  \A i, j \in 1..Len(scores) :
                      i < j => scores[q[i]] >= scores[q[j]]}}

InitSearch ==
    /\ NoDocuments
    /\ tl = IdleTokenLimit
    /\ em = IdleEmbed
    /\ ups = IdleUpsert
    /\ ls = IdleListing
    /\ \E scores \in SearchIndexes, q \in Questions, k \in TopK :
          qa = [IdleQA EXCEPT !.search =
                   [IdleSearch EXCEPT !.pc = "embed", !.index = scores,
                                      !.question = q, !.context_length = k]]

\* qdrant_service.py:164-168  openai.embeddings.create(input=[question])
SearchEmbed(ok) ==
    /\ qa.search.pc = "embed"
    /\ qa' = [qa EXCEPT !.search =
                 [@ EXCEPT !.embed_calls = @ + 1,
                           !.pc = IF ok THEN "query" ELSE "raised"]]
    /\ UNCHANGED <<docVars, tl, em, ups, ls>>

\* variant: the index is asked for DefaultContextLength points
SearchQuery_DefaultLimit(ok) ==
    /\ qa.search.pc = "query"
    /\ IF ok
       THEN \E hits \in IndexHits(qa.search.index, DefaultContextLength) :
               qa' = [qa EXCEPT !.search =
                         [@ EXCEPT !.queries = @ + 1, !.hits = hits,
                                   !.result = hits, !.pc = "returned"]]
       ELSE qa' = [qa EXCEPT !.search =
                      [@ EXCEPT !.queries = @ + 1, !.pc = "raised"]]
    /\ UNCHANGED <<docVars, tl, em, ups, ls>>

\* qdrant_service.py:157-171  client.search with limit=context_length; its
\* result is returned as it is
SearchQuery(ok) ==
    /\ qa.search.pc = "query"
    /\ IF ok
       THEN \E hits \in IndexHits(qa.search.index, qa.search.context_length) :
               qa' = [qa EXCEPT !.search =
                         [@ EXCEPT !.queries = @ + 1, !.hits = hits,
                                   !.result = hits, !.pc = "returned"]]
       ELSE qa' = [qa EXCEPT !.search =
                      [@ EXCEPT !.queries = @ + 1, !.pc = "raised"]]
    /\ UNCHANGED <<docVars, tl, em, ups, ls>>

NextSearch ==
    \/ \E ok \in BOOLEAN : SearchEmbed(ok)
    \/ \E ok \in BOOLEAN : SearchQuery(ok)

SpecSearch == InitSearch /\ [][NextSearch]_vars

\* ================================================= QAService.process_requests
\* qa_service.py:163-178: one call of process_requests; every request is one
\* call of send_request (qa_service.py:132-161) under the semaphore of the
\* batch.
MaxBatch == 3   \* requests of one batch

\* the values of max_concurrent that are tried; 2 is the default
MaxConcurrents == {-1, 0, 1, 2}

\* the batches: request i asks the question requests[i]
Batches == UNION { [1..n -> Questions] : n \in 0..MaxBatch }

\* a coroutine of send_request that has not run yet
NewTask == [pc |-> "created", result |-> << >>]

InitBatch ==
    /\ NoDocuments
    /\ tl = IdleTokenLimit
    /\ em = IdleEmbed
    /\ ups = IdleUpsert
    /\ ls = IdleListing
    /\ \E requests \in Batches, max_concurrent \in MaxConcurrents :
          qa = [IdleQA EXCEPT !.batch =
                   [IdleBatch EXCEPT !.pc = "new", !.requests = requests,
                                     !.max_concurrent = max_concurrent]]

\* qa_service.py:171-178  Semaphore(max_concurrent) raises ValueError for a
\* negative value; otherwise one coroutine per request, handed to gather
BatchStart ==
    /\ qa.batch.pc = "new"
    /\ qa' = [qa EXCEPT !.batch =
                 IF qa.batch.max_concurrent < 0
                 THEN [@ EXCEPT !.pc = "raised", !.error = "ValueError"]
                 ELSE [@ EXCEPT !.pc = "gather",
                                !.sem = qa.batch.max_concurrent,
                                !.task = [i \in 1..Len(qa.batch.requests) |->
                                             [NewTask EXCEPT !.pc = "waiting"]]]]
    /\ UNCHANGED <<docVars, tl, em, ups, ls>>

\* qa_service.py:136  async with sem: a waiting coroutine takes one of the
\* free places of the semaphore and its call to the language model starts
SendAcquire(i) ==
    /\ qa.batch.pc \in {"gather", "raised"}
    /\ i \in 1..Len(qa.batch.task)
    /\ qa.batch.task[i].pc = "waiting"
    /\ qa.batch.sem > 0
    /\ qa' = [qa EXCEPT !.batch.sem = @ - 1,
                        !.batch.task[i].pc = "llm"]
    /\ UNCHANGED <<docVars, tl, em, ups, ls>>

\* qa_service.py:137-161  the call comes back or raises; leaving the
\* `async with` gives the place back
SendRelease(i, ok) ==
    /\ qa.batch.pc \in {"gather", "raised"}
    /\ i \in 1..Len(qa.batch.task)
    /\ qa.batch.task[i].pc = "llm"
    /\ qa' = [qa EXCEPT !.batch.sem = @ + 1,
                        !.batch.task[i] =
                            IF ok
                            THEN [pc |-> "done",
                                  result |-> <<[to |-> qa.batch.requests[i],
                                               request |-> i]>>]
                            ELSE [pc |-> "failed", result |-> << >>]]
    /\ UNCHANGED <<docVars, tl, em, ups, ls>>

\* qa_service.py:178  gather returns the results of all coroutines in the
\* order in which they were handed to it
GatherReturn ==
    /\ qa.batch.pc = "gather"
    /\ \A i \in 1..Len(qa.batch.task) : qa.batch.task[i].pc = "done"
    /\ qa' = [qa EXCEPT !.batch.pc = "returned",
                        !.batch.results =
                            [i \in 1..Len(qa.batch.task) |->
                                qa.batch.task[i].result[1]]]
    /\ UNCHANGED <<docVars, tl, em, ups, ls>>

\* qa_service.py:178  gather hands the first exception on to its caller; the
\* other coroutines are not cancelled and go on
GatherRaise ==
    /\ qa.batch.pc = "gather"
    /\ \E i \in 1..Len(qa.batch.task) : qa.batch.task[i].pc = "failed"
    /\ qa' = [qa EXCEPT !.batch.pc = "raised", !.batch.error = "llm"]
    /\ UNCHANGED <<docVars, tl, em, ups, ls>>

NextGather ==
    \/ BatchStart
    \/ \E i \in 1..MaxBatch : SendAcquire(i)
    \/ \E i \in 1..MaxBatch, ok \in BOOLEAN : SendRelease(i, ok)
    \/ GatherReturn
    \/ GatherRaise

\* the event loop runs every coroutine that can go on, and every call to the
\* language model comes back or raises
SpecBatch == InitBatch /\ [][NextGather]_vars /\ WF_vars(NextGather)

\* ================================================================ claims
Terminal == {PROCESSED, ERROR}

\* the stages at which a collaborator call of process_document can fail
CollaboratorStages ==
    {"fetch", "extract", "embed", "collection", "exists", "upsert"}

\* the invocation for document id is over: it returned or raised
RunOver(t) == t.pc \in {"done", "raised"}

\* C1: in every reachable state no two rows of the documents table have the
\* same filename.
C1_FilenamesUnique ==
    \A d1 \in DOMAIN docs, d2 \in DOMAIN docs :
        d1 # d2 => docs[d1].filename # docs[d2].filename

\* C2: an upload of a filename that a row already has fails with the
\* conflict error (409), creates no row and writes nothing to storage.
C2_DuplicateUploadConflict ==
    \A r \in DocIds :
        up[r].dup => /\ up[r].pc = "done"
                     /\ up[r].resp = 409
                     /\ ~up[r].stored
                     /\ r \notin DOMAIN docs

\* C3 as stated: a status only moves UPLOADED -> PROCESSING -> PROCESSED or
\* ERROR, and nothing changes a status that is PROCESSED or ERROR.
C3_StatusNeverLeavesTerminal ==
    [][\A id \in DOMAIN docs \cap DOMAIN docs' :
          docs[id].status # docs'[id].status =>
              <<docs[id].status, docs'[id].status>> \in
                  { <<UPLOADED, PROCESSING>>, <<PROCESSING, PROCESSED>>,
                    <<PROCESSING, ERROR>> }]_vars

\* C3 amended: a status only moves UPLOADED -> PROCESSING -> PROCESSED or
\* ERROR, except that a new process(id) call moves PROCESSED or ERROR back to
\* PROCESSING; no other operation changes a status that is PROCESSED or ERROR.
C3_StatusTransitions ==
    [][\A id \in DOMAIN docs \cap DOMAIN docs' :
          docs[id].status # docs'[id].status =>
              \/ <<docs[id].status, docs'[id].status>> \in
                     { <<UPLOADED, PROCESSING>>, <<PROCESSING, PROCESSED>>,
                       <<PROCESSING, ERROR>> }
              \/ /\ docs[id].status \in Terminal
                 /\ docs'[id].status = PROCESSING
                 /\ task[id].pc = "setproc"
                 /\ task'[id].pc = "fetch"]_vars

\* a new process(id) call has moved a PROCESSED or ERROR document to PROCESSING
C3_Witness ==
    \E id \in DOMAIN docs :
        /\ task[id].from \in Terminal
        /\ task[id].pc = "fetch"
        /\ docs[id].status = PROCESSING

\* C4: when a stage of process(id) has raised, the persisted status after
\* the invocation is over is ERROR.
C4_FailureEndsError ==
    \A id \in DOMAIN docs :
        (RunOver(task[id]) /\ task[id].failed \in CollaboratorStages)
            => docs[id].status = ERROR

\* C5: once the background task of an upload is over, the persisted status
\* of its document is PROCESSED or ERROR.
C5_BackgroundTaskEndsTerminal ==
    \A id \in DOMAIN docs :
        (task[id].pc = "done" /\ task[id].runs = 1 /\ task[id].failed # "notfound")
            => docs[id].status \in Terminal

FullPipeline ==
    <<"processing", "fetch", "extract", "chunk", "embed", "upsert", "processed">>

\* the text was chunked and gave no chunk
YieldsNoFragment(t) ==
    /\ \E i \in 1..Len(t.stages) : t.stages[i] = "chunk"
    /\ Len(t.chunks) = 0

\* C6 as stated: a process(id) call on an ERROR document in which no
\* collaborator fails runs every stage and ends with status PROCESSED.
C6_RetryEndsProcessed ==
    [][\A id \in DocIds :
          ( /\ ~RunOver(task[id]) \/ task'[id].runs # task[id].runs
            /\ RunOver(task'[id])
            /\ task'[id].from = ERROR
            /\ task'[id].failed \notin CollaboratorStages )
          => /\ task'[id].stages = FullPipeline
             /\ id \in DOMAIN docs'
             /\ docs'[id].status = PROCESSED]_vars

\* C6 amended: a process(id) call on an ERROR document in which no
\* collaborator fails and whose text yields at least one fragment runs every
\* stage and ends with status PROCESSED.
C6_RetryWithFragmentsEndsProcessed ==
    [][\A id \in DocIds :
          ( /\ ~RunOver(task[id]) \/ task'[id].runs # task[id].runs
            /\ RunOver(task'[id])
            /\ task'[id].from = ERROR
            /\ task'[id].failed \notin CollaboratorStages
            /\ ~YieldsNoFragment(task'[id]) )
          => /\ task'[id].stages = FullPipeline
             /\ id \in DOMAIN docs'
             /\ docs'[id].status = PROCESSED]_vars

\* a process(id) call on an ERROR document has ended with PROCESSED
C6_Witness ==
    \E id \in DOMAIN docs :
        /\ task[id].from = ERROR
        /\ task[id].pc = "done"
        /\ task[id].failed = ""
        /\ docs[id].status = PROCESSED

\* C7: a PROCESSED row has a processed time and a preview; after a
\* successful process(id) the preview is the first 1000 characters of the
\* first fragment, followed by the continuation marker exactly when there is
\* more than one fragment.
C7_ProcessedHasTimeAndPreview ==
    \A id \in DOMAIN docs :
        docs[id].status = PROCESSED =>
            /\ Len(docs[id].processed_time) = 1
            /\ Len(docs[id].content_preview) = 1
            /\ (task[id].pc = "done" /\ task[id].failed = "") =>
                  LET first == task[id].chunks[1]
                      pv == docs[id].content_preview[1]
                  IN /\ pv.head.src = first.src
                     /\ pv.head.len = (IF first.len > 1000 THEN 1000 ELSE first.len)
                     /\ (pv.tail = MoreMarker) <=> (Len(task[id].chunks) > 1)
                     /\ (pv.tail = "") <=> (Len(task[id].chunks) = 1)

\* a document of one long fragment and a document of two fragments are PROCESSED
C7_Witness ==
    /\ \E id \in DOMAIN docs :
          /\ docs[id].status = PROCESSED
          /\ task[id].pc = "done"
          /\ Len(task[id].chunks) = 1
          /\ task[id].chunks[1].len > 1000
    /\ \E id \in DOMAIN docs :
          /\ docs[id].status = PROCESSED
          /\ task[id].pc = "done"
          /\ Len(task[id].chunks) > 1

\* C8: after delete(id) has returned true there is no row for id.
C8_DeletedStaysDeleted ==
    \A k \in DelReqs :
        (del[k].pc = "done" /\ del[k].result) => del[k].id \notin DOMAIN docs

\* C9: a delete(id) that finds no row for id returns false at once, calls
\* neither the object store nor the vector index, and changes no store.
C9_DeleteMissingChangesNothing ==
    [][\A k \in DelReqs :
          ( /\ del[k].pc = "new"
            /\ del'[k].pc # "new"
            /\ del'[k].id \notin DOMAIN docs )
          => /\ del'[k].pc = "done"
             /\ del'[k].result = FALSE
             /\ del'[k].calls = {}
             /\ UNCHANGED <<docs, s3, index, collection>>]_vars

\* a delete of an id without a row has returned false
C9_Witness ==
    \E k \in DelReqs :
        /\ del[k].pc = "done"
        /\ ~del[k].result
        /\ del[k].id \notin DOMAIN docs

\* C10: after a delete(id) that returned true and in which no collaborator
\* call failed, the index has no point tagged id and the object store has
\* no object of document id.
C10_DeleteCascades ==
    \A k \in DelReqs :
        (del[k].pc = "done" /\ del[k].result /\ del[k].failures = {})
            => /\ index[del[k].id] = 0
               /\ \A key \in DOMAIN s3 : s3[key].document_id # del[k].id

\* ------------------------------------------------------------------ C11
\* C11: for every chunk list and every max_tokens, each fragment has at most
\* max_tokens tokens, and of two consecutive windows of a sliced chunk the
\* later one begins exactly Overlap tokens before the end of the earlier one.
C11_WindowsWithinLimitAndOverlap ==
    LET fc == tl.final_chunks
    IN /\ \A j \in 1..Len(fc) : fc[j].hi - fc[j].lo <= tl.max_tokens
       /\ \A j \in 1..(Len(fc) - 1) :
              fc[j + 1].chunk = fc[j].chunk => fc[j + 1].lo = fc[j].hi - Overlap

\* ------------------------------------------------------------------ C12
\* C12: ensure_token_limit returns for every chunk list and every
\* max_tokens >= 1, also when max_tokens is at or below the overlap.
C12_TokenLimitTerminates == <>(tl.pc = "returned")

\* ------------------------------------------------------------------ C13
\* C13: a chunk whose token count is at most max_tokens is emitted unchanged
\* as exactly one fragment, the fragments follow the order of the chunks they
\* come from, and an empty chunk list gives an empty output.
C13_SmallChunksKeptInOrder ==
    LET fc == tl.final_chunks
    IN /\ \A i, j \in 1..Len(fc) : i < j => fc[i].chunk <= fc[j].chunk
       /\ \A k \in 1..Len(tl.chunks) :
              (k < tl.k /\ tl.chunks[k] <= tl.max_tokens)
                  => /\ Cardinality({j \in 1..Len(fc) : fc[j].chunk = k}) = 1
                     /\ \E j \in 1..Len(fc) : fc[j] = Whole(k, tl.chunks[k])
       /\ (tl.pc = "returned" /\ tl.chunks = << >>) => fc = << >>

\* a call has returned whose list held a chunk exactly at the limit, after a
\* chunk that was sliced
C13_Witness ==
    /\ tl.pc = "returned"
    /\ Len(tl.chunks) = 2
    /\ tl.chunks[1] > tl.max_tokens
    /\ tl.chunks[2] = tl.max_tokens
    /\ tl.final_chunks[Len(tl.final_chunks)] = Whole(2, tl.max_tokens)

\* ------------------------------------------------------------------ C14
RECURSIVE Flatten(_)
Flatten(seqs) == IF seqs = << >> THEN << >> ELSE Head(seqs) \o Flatten(Tail(seqs))

\* C14: every request of embed_chunks carries at most 16 fragments, the
\* requests taken in order carry the fragments in order with none skipped or
\* repeated, and the returned list has one vector per fragment, vector j being
\* the embedding of fragment j.
C14_EmbedBatchesCoverInOrder ==
    LET sent == Flatten(em.requests)
    IN /\ \A r \in 1..Len(em.requests) : Len(em.requests[r]) <= 16
       /\ Len(sent) <= Len(em.chunks)
       /\ sent = SubSeq(em.chunks, 1, Len(sent))
       /\ em.returned # << >> =>
              /\ sent = em.chunks
              /\ Len(em.returned[1]) = Len(em.chunks)
              /\ \A j \in 1..Len(em.chunks) :
                     em.returned[1][j] = Embedding(em.chunks[j])

\* embed_chunks has returned after three requests, the last of them partial
C14_Witness ==
    /\ em.returned # << >>
    /\ Len(em.requests) = 3
    /\ Len(em.requests[3]) < 16
    /\ Len(em.returned[1]) = Len(em.chunks)

\* ------------------------------------------------------------------ C15
\* C15: when a batch of embed_chunks fails, embed_chunks returns nothing, not
\* even the vectors of the batches before it; process_document then upserts
\* nothing and ends with the status ERROR.
C15_FailedBatchFailsProcessing ==
    em.failed =>
        /\ em.returned = << >>
        /\ em.upserted = 0
        /\ em.pc = "done" => em.status = ERROR

\* processing has ended after the second batch failed
C15_Witness ==
    /\ em.failed
    /\ Len(em.requests) = 2
    /\ em.pc = "done"
    /\ em.status = ERROR

\* ------------------------------------------------------------------ C16
\* C16: every upsert call carries at most 200 points, and the calls taken in
\* order carry the points in their original order, each point exactly once.
C16_UpsertCallsBounded ==
    LET sent == Flatten(ups.calls)
    IN /\ \A c \in 1..Len(ups.calls) : Len(ups.calls[c]) <= 200
       /\ Len(sent) <= Len(ups.points)
       /\ sent = SubSeq(ups.points, 1, Len(sent))
       /\ ups.pc = "returned" => sent = ups.points

\* upsert_points has returned after three calls, the last of them partial
C16_Witness ==
    /\ ups.pc = "returned"
    /\ Len(ups.calls) = 3
    /\ Len(ups.calls[3]) < 200
    /\ Flatten(ups.calls) = ups.points

\* ------------------------------------------------------------------ C17
\* C17: upsert_points builds exactly one point per fragment; point j carries
\* vector j and a payload with the document id, the filename, the text of
\* fragment j and the point's own id; when it returns, these points are the
\* ones that were sent to the collection.
C17_OnePointPerFragment ==
    ups.pc \in {"upsert", "returned"} =>
        /\ Len(ups.points) = Len(ups.chunks)
        /\ \A j \in 1..Len(ups.points) :
               /\ ups.points[j].vector = ups.embeddings[j]
               /\ ups.points[j].payload.document_id = ups.document_id
               /\ ups.points[j].payload.document_filename = ups.document_filename
               /\ ups.points[j].payload.content = ups.chunks[j]
               /\ ups.points[j].payload.point_id = ups.points[j].id
               /\ \A i \in 1..Len(ups.points) :
                      i # j => ups.points[i].id # ups.points[j].id
        /\ ups.pc = "returned" => Flatten(ups.calls) = ups.points

\* upsert_points has returned for a document of two fragments
C17_Witness ==
    /\ ups.pc = "returned"
    /\ Len(ups.chunks) = 2
    /\ Len(Flatten(ups.calls)) = 2

\* ------------------------------------------------------------------ C18
\* C18: when documents are processed concurrently while the collection does
\* not exist, no processing fails on the creation of a collection that
\* exists already.
C18_AlreadyExistsIsSuccess ==
    \A id \in DocIds : task[id].failed # "exists"

\* ------------------------------------------------------------------ C19
\* calls to the embedding and language-model capabilities that are in flight
InFlight ==
    Cardinality({a \in AskIds : qa.ask[a].pc = "llm"})
        + (IF qa.embedding THEN 1 ELSE 0)

\* C19: at every moment at most 2 calls to the embedding and language-model
\* capabilities are in flight, over all answer_question calls and
\* document-processing tasks together.
C19_AtMostTwoInFlight == InFlight <= 2

\* ------------------------------------------------------------------ C20
\* C20: when the search has returned no fragment, answer_question fails with
\* the no-relevant-context error, has called the language model not once and
\* has saved no record of the session.
C20_NoContextNoAnswer ==
    \A a \in AskIds :
        (qa.ask[a].pc # "new" /\ qa.ask[a].error # "search"
             /\ qa.ask[a].sources = << >>)
            => /\ qa.ask[a].pc = "raised"
               /\ qa.ask[a].error = "no_context"
               /\ qa.ask[a].llm_calls = 0
               /\ \A r \in qa.history : r.id # a

\* over an index with points one call has failed on top_k = 0 and another
\* has been answered and recorded
C20_Witness ==
    /\ qa.corpus # << >>
    /\ \E a, b \in AskIds :
          /\ qa.ask[a].error = "no_context"
          /\ qa.ask[a].context_length = 0
          /\ qa.ask[b].pc = "done"
          /\ \E r \in qa.history : r.id = b

\* ------------------------------------------------------------------ C21
\* C21: every answer_question call that returns a response has sent exactly
\* one request to the language model, after the search has returned its
\* fragments and before the record of the session is saved; the prompt of
\* that request holds the question and the text of every retrieved fragment
\* labelled with its document id.
C21_OneCompletionBetweenSearchAndSave ==
    \A a \in AskIds :
        LET ask == qa.ask[a]
        IN /\ ask.llm_calls <= 1
           /\ ask.llm_calls = 1 => ask.sources # << >>
           /\ ask.pc = "llm" => \A r \in qa.history : r.id # SessionId(a)
           /\ (\E r \in qa.history : r.id = SessionId(a)) => ask.llm_calls = 1
           /\ ask.response # << >> =>
                 /\ ask.llm_calls = 1
                 /\ ask.prompt.question = ask.question
                 /\ \A j \in 1..Len(ask.sources) :
                       \E k \in 1..Len(ask.prompt.context) :
                          /\ ask.prompt.context[k].document_id
                                 = ask.sources[j].payload.document_id
                          /\ ask.prompt.context[k].text
                                 = ask.sources[j].payload.content

\* two calls with different questions have returned, one of them over two
\* retrieved fragments
C21_Witness ==
    \E a, b \in AskIds :
        /\ qa.ask[a].response # << >>
        /\ qa.ask[b].response # << >>
        /\ qa.ask[a].question # qa.ask[b].question
        /\ Len(qa.ask[a].sources) = 2

\* ------------------------------------------------------------------ C22
\* C22: over a non-empty search result the response of answer_question holds
\* as confidence the mean of the scores of the retrieved fragments (the sum
\* of the scores is the confidence times their number) and as sources one
\* entry per retrieved fragment, in the order of the search.
C22_ConfidenceIsMeanSourcesInOrder ==
    \A a \in AskIds :
        LET ask == qa.ask[a]
        IN ask.response # << >> =>
              /\ ask.sources # << >>
              /\ ask.response.confidence_score.num * Len(ask.sources)
                     = SumScores(ask.sources) * ask.response.confidence_score.den
              /\ ask.response.confidence_score.den > 0
              /\ Len(ask.response.sources) = Len(ask.sources)
              /\ \A j \in 1..Len(ask.sources) :
                    /\ ask.response.sources[j].point_id = ask.sources[j].point_id
                    /\ ask.response.sources[j].score = ask.sources[j].score
                    /\ ask.response.sources[j].content
                           = ask.sources[j].payload.content

\* a response over two fragments of different scores
C22_Witness ==
    \E a \in AskIds :
        /\ qa.ask[a].response # << >>
        /\ Len(qa.ask[a].sources) = 2
        /\ qa.ask[a].sources[1].score # qa.ask[a].sources[2].score

\* ------------------------------------------------------------------ C23
\* C23: every answer_question call that has returned has saved exactly one
\* record, under the session id of its response, which no other record
\* bears; the document ids of the record are the document ids of the
\* retrieved fragments, each once. A call that has not returned has no
\* record.
C23_OneRecordPerAnswer ==
    /\ \A a \in AskIds :
          LET ask == qa.ask[a]
              mine == {r \in qa.history : r.id = SessionId(a)}
          IN IF ask.response # << >>
             THEN /\ Cardinality(mine) = 1
                  /\ \A r \in mine :
                        /\ r.id = ask.response.session_id
                        /\ DOMAIN r.document_ids = ContributingIds(ask.sources)
                        /\ \A d \in DOMAIN r.document_ids : r.document_ids[d] = 1
             ELSE mine = {}
    /\ Cardinality(qa.history)
           = Cardinality({a \in AskIds : qa.ask[a].response # << >>})

\* two calls have returned and saved their records, one of them over two
\* fragments of the same document
C23_Witness ==
    /\ Cardinality(qa.history) = 2
    /\ \E a \in AskIds :
          /\ qa.ask[a].response # << >>
          /\ Len(qa.ask[a].sources) = 2
          /\ qa.ask[a].sources[1].payload.document_id
                 = qa.ask[a].sources[2].payload.document_id

\* ------------------------------------------------------------------ C24
\* C24: whatever answer_question, submit_feedback and delete_feedback do, a
\* saved record of a session stays in qa_history with its id, question,
\* answer, timestamp, document ids and confidence; only its feedback rating
\* changes.
C24_RecordsKeptButRating ==
    [][\A r \in qa.history :
          \E n \in qa.history' :
             n = [r EXCEPT !.feedback_rating = n.feedback_rating]]_vars

\* a session has been rated and its feedback has been deleted again
C24_Witness ==
    /\ \E r \in qa.history : r.feedback_rating # NoRating
    /\ qa.feedback = {}
    /\ \A f \in FbIds : qa.fb[f].pc = "done" /\ qa.fb[f].resp = 200

\* ------------------------------------------------------------------ C25
\* C25: a delete_feedback(session_id) that removes the feedback rows of the
\* session (only delete_feedback removes rows) leaves the record of the
\* session without a feedback rating, and leaves every record in qa_history.
C25_DeleteFeedbackDetaches ==
    [][\A sid \in SessionIds :
          (/\ \E row \in qa.feedback : row.session_id = sid
           /\ \A row \in qa.feedback' : row.session_id # sid)
             => \A r \in qa.history :
                   \E n \in qa.history' :
                      n.id = r.id /\ (r.id = sid => n.feedback_rating = NoRating)]_vars

\* ------------------------------------------------------------------ C26
\* the instant t is earlier than the instant u
Earlier(t, u) == t.s < u.s \/ (t.s = u.s /\ t.us < u.us)

\* the records of the listed table, in the order of their ids
ListedRecords ==
    FromRows(IF ls.of = "qa_history" THEN ls.qa_history ELSE ls.feedback)

\* C26: get_qa_history(limit, offset) and get_feedback_history(limit,
\* offset) return, for limit >= 0 and offset >= 0, the records of the table
\* in an order of descending timestamps, without the first `offset` records
\* of that order and cut after `limit` records.
C26_ListingSortedAndPaged ==
    ls.pc = "returned" =>
        \E p \in RowOrders(Len(ListedRecords)) :
            LET sorted == [j \in 1..Len(ListedRecords) |-> ListedRecords[p[j]]]
                left == Len(sorted) - ls.offset
                n == IF left <= 0 THEN 0
                     ELSE IF ls.limit < left THEN ls.limit ELSE left
            IN /\ \A i, j \in 1..Len(sorted) :
                     i < j => ~Earlier(sorted[i].timestamp, sorted[j].timestamp)
               /\ ls.result = [j \in 1..n |-> sorted[ls.offset + j]]

\* the second of two records has been listed, from a table whose timestamps
\* lie in the same second, one of them with no microseconds
C26_Witness ==
    /\ ls.pc = "returned"
    /\ ls.offset = 1
    /\ ls.limit = 1
    /\ Len(ListedRecords) = 2
    /\ ListedRecords[1].timestamp.s = ListedRecords[2].timestamp.s
    /\ ListedRecords[1].timestamp.us = 5
    /\ ListedRecords[2].timestamp.us = 0
    /\ ls.result = <<ListedRecords[2]>>

\* ------------------------------------------------------------------ C27
\* C27: an upload request that returns successfully has stored the bytes in
\* the object store before, saves with its last step a row of status
\* UPLOADED under an id that no row bore, and returns while the processing
\* of the document has not started; an upload whose write to the object
\* store has failed has no row and no task.
C27_UploadStoresThenSavesThenReturns ==
    [][\A r \in DocIds :
          /\ (up[r].pc # "done" /\ up'[r].pc = "done" /\ up'[r].resp = 200)
                => /\ up[r].stored
                   /\ r \notin DOMAIN docs
                   /\ r \in DOMAIN docs'
                   /\ docs'[r].status = UPLOADED
                   /\ task'[r].pc = "queued"
                   /\ task'[r].runs = 0
          /\ (r \in DOMAIN docs' /\ task[r].pc = "none") => up[r].stored
          /\ (up'[r].pc = "done" /\ ~up'[r].stored)
                => r \notin DOMAIN docs' /\ task'[r].pc = "none"]_vars

\* one upload has returned with its row saved and its task waiting, another
\* has failed on the object store
C27_Witness ==
    \E r, q \in DocIds :
        /\ up[r].resp = 200
        /\ r \in DOMAIN docs
        /\ docs[r].status = UPLOADED
        /\ task[r].pc = "queued"
        /\ up[q].pc = "done"
        /\ up[q].raised = 500
        /\ q \notin DOMAIN docs

\* ------------------------------------------------------------------ C28
\* the filename is missing or does not end in .pdf
NotAPdfFilename(f) == f = NoName \/ f.ext \notin {".pdf", ".PDF"}

\* C28: an upload whose filename is missing or does not end in .pdf is over
\* with its first step, which changes neither the object store nor the
\* documents table nor the index nor any task; it never has an object, a row
\* or a task.
C28_BadFilenameChangesNothing ==
    [][\A r \in DocIds :
          (up'[r].pc # "new" /\ NotAPdfFilename(up'[r].filename))
             => /\ up'[r].pc = "done"
                /\ up'[r].raised = 400
                /\ ~up'[r].stored
                /\ r \notin DOMAIN docs'
                /\ task'[r].pc = "none"
                /\ \A key \in DOMAIN s3' : s3'[key].document_id # r
                /\ up[r].pc = "new"
                      => UNCHANGED <<docs, s3, index, collection, task>>]_vars

\* an upload without filename and an upload of a.txt have been rejected
\* while a document is stored
C28_Witness ==
    /\ \E r, q \in DocIds :
          /\ up[r].pc = "done" /\ up[r].filename = ATxt /\ up[r].raised = 400
          /\ up[q].pc = "done" /\ up[q].dup = FALSE /\ up[q].raised = 400
          /\ up[q].filename = NoName
    /\ DOMAIN docs # {}

\* ------------------------------------------------------------------ C29
\* C29: a request rejected for its file type is answered 400, one rejected
\* for a duplicate filename 409, and a delete of an unknown document 404;
\* none of them is answered 500.
C29_RejectionsKeepTheirKind ==
    /\ \A r \in DocIds :
          up[r].raised \in {400, 409} => up[r].resp = up[r].raised
    /\ \A k \in DelReqs :
          (del[k].pc = "done" /\ ~del[k].result) => del[k].resp = 404

\* ------------------------------------------------------------------ C30
\* C30: a step of process_document(id) leaves every other row of the
\* documents table as it is (none is added, removed or changed), and the row
\* of id bears the id, filename, locator, upload time and size of the upload.
C30_ProcessTouchesOwnRowOnly ==
    [][\A id \in DocIds :
          (task'[id] # task[id] /\ task[id].pc # "none")
             => /\ \A o \in DocIds \ {id} :
                      /\ o \in DOMAIN docs <=> o \in DOMAIN docs'
                      /\ o \in DOMAIN docs => docs'[o] = docs[o]
                /\ id \in DOMAIN docs' =>
                      /\ docs'[id].id = id
                      /\ docs'[id].filename = up[id].filename
                      /\ docs'[id].file_path = Basename(up[id].filename)
                      /\ docs'[id].upload_time = up[id].time
                      /\ docs'[id].file_size = up[id].content.size]_vars

\* one document has been processed and the processing of another has
\* failed; the row of the latter still bears the time of its upload
C30_Witness ==
    \E id, o \in DOMAIN docs :
        /\ docs[id].status = PROCESSED
        /\ docs[o].status = ERROR
        /\ task[id].pc = "done"
        /\ task[o].pc = "done"
        /\ docs[o].upload_time = up[o].time

\* ------------------------------------------------------------------ C31
\* the delete request k has returned true for the only document that was
\* ever saved under filename f, as seen when upload request r arrives
DeletedTheOnly(k, f, r) ==
    /\ del[k].pc = "done"
    /\ del[k].result
    /\ del[k].key = f
    /\ \A q \in DocIds \ {del[k].id, r} :
          (up[q].pc # "new" /\ up[q].filename = f)
             => up[q].pc = "done" /\ up[q].resp # 200

\* C31: the duplicate check of an upload of f finds a duplicate exactly when
\* the documents table holds a row of filename f at that time; and when a
\* delete of the only document named f has returned true, the upload of f is
\* not rejected as a duplicate.
C31_DuplicateCheckReadsStore ==
    [][\A r \in DocIds :
          (up[r].pc = "new" /\ up'[r].pc # "new" /\ up'[r].raised # 400)
             => /\ up'[r].dup
                    <=> \E d \in DOMAIN docs : docs[d].filename = up'[r].filename
                /\ (\E k \in DelReqs : DeletedTheOnly(k, up'[r].filename, r))
                      => ~up'[r].dup]_vars

\* ------------------------------------------------------------------ C32
\* the stages of a run, without the closing "error"
StagesRun(t) ==
    IF t.stages # << >> /\ t.stages[Len(t.stages)] = "error"
    THEN SubSeq(t.stages, 1, Len(t.stages) - 1)
    ELSE t.stages

\* C32: the stages of a process_document run are taken once each and in the
\* order PROCESSING saved, bytes fetched, text extracted, chunked, embedded,
\* points upserted, PROCESSED saved; a run that has saved PROCESSED has taken
\* all of them, with the collection in place and every point of the document
\* upserted before.
C32_StagesOnceInOrder ==
    \A id \in DocIds :
        LET t == task[id]
            st == StagesRun(t)
        IN /\ Len(st) <= Len(FullPipeline)
           /\ st = SubSeq(FullPipeline, 1, Len(st))
           /\ Len(st) = Len(FullPipeline) =>
                 /\ t.stages = FullPipeline
                 /\ collection
                 /\ t.embedded = Len(t.chunks)
                 /\ t.upserted = Len(t.chunks)
                 /\ Len(t.chunks) > 0

\* a run has saved PROCESSED after it has created the collection and
\* upserted two points
C32_Witness ==
    \E id \in DOMAIN docs :
        /\ task[id].stages = FullPipeline
        /\ task[id].upserted = 2
        /\ docs[id].status = PROCESSED
        /\ task[id].runs = 1

\* ------------------------------------------------------------------ C33
\* C33: a search that has returned has made one embedding call and one index
\* query; its result is the answer of the index unchanged: at most top_k
\* points of the index, none twice, in descending order of score, none
\* worse than a point left out; it is empty when top_k = 0 or when nothing
\* is indexed.
C33_SearchReturnsHits ==
    LET se == qa.search
    IN /\ se.embed_calls <= 1
       /\ se.queries <= 1
       /\ se.pc = "returned" =>
             /\ se.embed_calls = 1
             /\ se.queries = 1
             /\ se.result = se.hits
             /\ Len(se.result) <= se.context_length
             /\ \A i \in 1..Len(se.result) :
                   /\ se.result[i].id \in DOMAIN se.index
                   /\ se.result[i].score = se.index[se.result[i].id]
             /\ \A i, j \in 1..Len(se.result) :
                   i < j => /\ se.result[i].score >= se.result[j].score
                            /\ se.result[i].id # se.result[j].id
             /\ \A j \in DOMAIN se.index :
                   (\A i \in 1..Len(se.result) : se.result[i].id # j)
                      => \A i \in 1..Len(se.result) :
                            se.result[i].score >= se.index[j]
             /\ (se.context_length = 0 \/ se.index = << >>) => se.result = << >>

\* the better of two indexed points has been returned for top_k = 1
C33_Witness ==
    /\ qa.search.pc = "returned"
    /\ qa.search.context_length = 1
    /\ Len(qa.search.index) = 2
    /\ qa.search.index[1] < qa.search.index[2]
    /\ Len(qa.search.result) = 1
    /\ qa.search.result[1].id = 2

\* the calls of the batch to the language model that are in flight
BatchInFlight == {i \in 1..Len(qa.batch.task) : qa.batch.task[i].pc = "llm"}

\* the requests of the batch that have been sent
BatchSent == {i \in 1..Len(qa.batch.task) :
            qa.batch.task[i].pc \in {"llm", "done", "failed"}}

\* C34: a batch of process_requests never has more than max_concurrent calls
\* in flight, every request of the batch is sent in the end, and the results
\* come back in the order of the requests.
C34_BatchBoundedSentOrdered ==
    /\ [](qa.batch.pc = "gather" => Cardinality(BatchInFlight) <= qa.batch.max_concurrent)
    /\ (qa.batch.pc = "gather" ~> BatchSent = 1..Len(qa.batch.requests))
    /\ [](qa.batch.pc = "returned" =>
             /\ Len(qa.batch.results) = Len(qa.batch.requests)
             /\ \A i \in 1..Len(qa.batch.requests) :
                   /\ qa.batch.results[i].request = i
                   /\ qa.batch.results[i].to = qa.batch.requests[i])

\* C35: once delete(id) has returned true, no step leaves a row for id in
\* the table, also not a step of a process(id) that was running at the delete.
C35_NoRowAfterDeleteReturned ==
    [][\A k \in DelReqs :
          (del[k].pc = "done" /\ del[k].result) =>
              del[k].id \notin DOMAIN docs']_vars

\* C36: whenever process(id) ends with status PROCESSED, the index holds
\* exactly one point per fragment of the document tagged with id, also when
\* an earlier process(id) had written points. Stated for the documents that
\* no delete request has named, where no delete_points interferes.
C36_OnePointPerFragment ==
    [][\A id \in DocIds :
          ( /\ \A k \in DelReqs : del[k].pc = "new" \/ del[k].id # id
            /\ task[id].pc = "finish"
            /\ task'[id].pc = "done"
            /\ id \in DOMAIN docs'
            /\ docs'[id].status = PROCESSED )
          => index'[id] = Len(task[id].chunks)]_vars

\* the windows of chunk k among the fragments, in the order of their emission
WindowsOf(k) == SelectSeq(tl.final_chunks, LAMBDA f : f.chunk = k)

\* C37: with max_tokens above the overlap, the windows of every chunk longer
\* than max_tokens start at token 0, end at the last token, go forward
\* without a gap so that every token is in a window, and none follows the
\* window that reaches the end.
C37_WindowsCoverChunk ==
    tl.max_tokens > Overlap =>
        \A k \in 1..Len(tl.chunks) :
            (k < tl.k /\ tl.chunks[k] > tl.max_tokens) =>
                LET w == WindowsOf(k)
                    n == tl.chunks[k]
                IN /\ Len(w) >= 1
                   /\ w[1].lo = 0
                   /\ w[Len(w)].hi = n
                   /\ \A j \in 1..(Len(w) - 1) :
                          /\ w[j].lo < w[j + 1].lo
                          /\ w[j + 1].lo <= w[j].hi
                          /\ w[j].hi < n
                   /\ \A t \in 0..(n - 1) :
                          \E j \in 1..Len(w) : w[j].lo <= t /\ t < w[j].hi

\* a call with max_tokens above the overlap has returned after it sliced a
\* chunk into more than two windows
C37_Witness ==
    /\ tl.pc = "returned"
    /\ tl.max_tokens > Overlap
    /\ \E k \in 1..Len(tl.chunks) :
          /\ tl.chunks[k] > tl.max_tokens
          /\ Len(WindowsOf(k)) > 2

\* C38: when the call to the language model fails during answer_question,
\* the failing step changes neither the QA history nor the feedback table,
\* and no record of that call is in the QA history then or later.
C38_FailedAnswerLeavesNoRecord ==
    [][\A a \in AskIds :
          /\ (qa.ask[a].pc = "llm" /\ qa'.ask[a].error = "llm") =>
                 /\ qa'.history = qa.history
                 /\ qa'.feedback = qa.feedback
          /\ qa'.ask[a].error = "llm" =>
                 \A r \in qa'.history : r.id # SessionId(a)]_vars

\* the language model has failed for one question after the record of
\* another question had been saved
C38_Witness ==
    \E a \in AskIds :
        /\ qa.ask[a].pc = "raised"
        /\ qa.ask[a].error = "llm"
        /\ qa.ask[a].llm_calls = 1
        /\ qa.history # {}

\* the feedback rows of session s, and the one inserted last (the row ids
\* are given out in the order of the inserts)
FeedbackOf(s) == {r \in qa.feedback : r.session_id = s}
LatestFeedback(rows) == CHOOSE r \in rows : \A q \in rows : q.id <= r.id

\* C39: when the last running submit_feedback call of an existing session
\* finishes, the rating of the QA record of the session is the rating of the
\* feedback row of the session that was inserted last.
C39_RatingOfLatestFeedback ==
    [][\A f \in FbIds :
          LET s == qa.fb[f].session_id
          IN ( /\ qa.fb[f].pc = "update"
               /\ qa'.fb[f].pc = "done"
               /\ \E h \in qa.history : h.id = s
               /\ FeedbackOf(s) # {}
               /\ \A g \in FbIds \ {f} :
                     ~(qa.fb[g].pc = "update" /\ qa.fb[g].session_id = s) )
             => \A h \in qa'.history :
                    h.id = s =>
                        h.feedback_rating = LatestFeedback(FeedbackOf(s)).rating]_vars

====
